---- MODULE Spec2Model ----
(***************************************************************************)
(* A model of the retrieval-augmented estimation pipeline of conf42demo:   *)
(* the commit categorizer and history extractor (commit_analyzer.py), the  *)
(* similarity index and estimation engine (task_estimator.py).             *)
(*                                                                         *)
(* Text is modelled as a sequence of one-character strings, so that        *)
(* str.lower(), the "in" substring test, str.split() and str.strip() are   *)
(* computed as the code computes them.                                     *)
(***************************************************************************)
EXTENDS Integers, Sequences, FiniteSets, TLC

(***************************************************************************)
(* Bounds of the model.                                                    *)
(***************************************************************************)
\* longest commit message the categorizer is fed, in words of Words
MaxWords == 2
\* longest file list the categorizer is fed, in paths of Paths
MaxFiles == 1

(***************************************************************************)
(* Text helpers.                                                           *)
(***************************************************************************)
UpperChars == <<"A","B","C","D","E","F","G","H","I","J","K","L","M",
                "N","O","P","Q","R","S","T","U","V","W","X","Y","Z">>
LowerChars == <<"a","b","c","d","e","f","g","h","i","j","k","l","m",
                "n","o","p","q","r","s","t","u","v","w","x","y","z">>

\* str.lower() on one character
LowerChar(c) ==
    LET at == {i \in 1..Len(UpperChars) : UpperChars[i] = c}
    IN  IF at = {} THEN c ELSE LowerChars[CHOOSE i \in at : TRUE]

\* str.lower()
Lower(s) == [i \in 1..Len(s) |-> LowerChar(s[i])]

\* the positions at which sub occurs in s
Occurrences(sub, s) ==
    {i \in 1..(Len(s) - Len(sub) + 1) : SubSeq(s, i, i + Len(sub) - 1) = sub}

\* Python's "sub in s"
Contains(s, sub) ==
    \E i \in 1..(Len(s) - Len(sub) + 1) : \A j \in 1..Len(sub) : s[i + j - 1] = sub[j]

RECURSIVE JoinFrom(_, _, _)
JoinFrom(sep, parts, i) ==
    IF i > Len(parts) THEN <<>>
    ELSE IF i = Len(parts) THEN parts[i]
    ELSE parts[i] \o sep \o JoinFrom(sep, parts, i + 1)

\* sep.join(parts)
Join(sep, parts) == JoinFrom(sep, parts, 1)

Min(S) == CHOOSE x \in S : \A y \in S : x <= y

\* all sequences over S of length at most n
SeqsUpTo(S, n) == UNION {[1..k -> S] : k \in 0..n}

(***************************************************************************)
(* CommitAnalyzer.CATEGORY_KEYWORDS: a dict, iterated in insertion order.  *)
(***************************************************************************)
CategoryKeywordsFixFirst ==
    << [category |-> "fix",
     keywords |-> << <<"f","i","x">>,
                     <<"b","u","g">>,
                     <<"p","a","t","c","h">>,
                     <<"h","o","t","f","i","x">>,
                     <<"i","s","s","u","e">> >>],
    [category |-> "auth",
     keywords |-> << <<"a","u","t","h">>,
                     <<"l","o","g","i","n">>,
                     <<"j","w","t">>,
                     <<"f","a","r","c","a","s","t","e","r">>,
                     <<"s","e","s","s","i","o","n">>,
                     <<"t","o","k","e","n">> >>],
    [category |-> "nft",
     keywords |-> << <<"n","f","t">>,
                     <<"m","i","n","t">>,
                     <<"t","o","k","e","n">>,
                     <<"c","o","n","t","r","a","c","t">>,
                     <<"b","l","o","c","k","c","h","a","i","n">>,
                     <<"e","t","h">>,
                     <<"w","a","l","l","e","t">> >>],
    [category |-> "api",
     keywords |-> << <<"a","p","i">>,
                     <<"e","n","d","p","o","i","n","t">>,
                     <<"r","o","u","t","e">>,
                     <<"c","o","n","t","r","o","l","l","e","r">>,
                     <<"s","e","r","v","i","c","e">> >>],
    [category |-> "ui",
     keywords |-> << <<"u","i">>,
                     <<"f","r","o","n","t","e","n","d">>,
                     <<"v","i","s","u","a","l">>,
                     <<"c","o","l","o","r">>,
                     <<"s","t","y","l","e">>,
                     <<"c","s","s">>,
                     <<"p","a","n","e","l">> >>],
    [category |-> "infra",
     keywords |-> << <<"i","n","f","r","a">>,
                     <<"d","e","p","l","o","y">>,
                     <<"d","o","c","k","e","r">>,
                     <<"c","i">>,
                     <<"c","d">>,
                     <<"c","o","r","s">>,
                     <<"c","o","n","f","i","g">>,
                     <<"e","n","v">> >>],
    [category |-> "refactor",
     keywords |-> << <<"r","e","f","a","c","t","o","r">>,
                     <<"c","l","e","a","n","u","p">>,
                     <<"r","e","o","r","g","a","n","i","z","e">>,
                     <<"r","e","s","t","r","u","c","t","u","r","e">> >>],
    [category |-> "test",
     keywords |-> << <<"t","e","s","t">>,
                     <<"s","p","e","c">>,
                     <<"j","e","s","t">>,
                     <<"p","y","t","e","s","t">>,
                     <<"c","o","v","e","r","a","g","e">> >>],
    [category |-> "docs",
     keywords |-> << <<"d","o","c">>,
                     <<"r","e","a","d","m","e">>,
                     <<"c","o","m","m","e","n","t">>,
                     <<"l","i","c","e","n","s","e">> >>],
    [category |-> "feature",
     keywords |-> << <<"a","d","d">>,
                     <<"i","m","p","l","e","m","e","n","t">>,
                     <<"c","r","e","a","t","e">>,
                     <<"n","e","w">>,
                     <<"f","e","a","t","u","r","e">> >>] >>

CATEGORY_KEYWORDS ==
    << [category |-> "auth",
     keywords |-> << <<"a","u","t","h">>,
                     <<"l","o","g","i","n">>,
                     <<"j","w","t">>,
                     <<"f","a","r","c","a","s","t","e","r">>,
                     <<"s","e","s","s","i","o","n">>,
                     <<"t","o","k","e","n">> >>],
    [category |-> "nft",
     keywords |-> << <<"n","f","t">>,
                     <<"m","i","n","t">>,
                     <<"t","o","k","e","n">>,
                     <<"c","o","n","t","r","a","c","t">>,
                     <<"b","l","o","c","k","c","h","a","i","n">>,
                     <<"e","t","h">>,
                     <<"w","a","l","l","e","t">> >>],
    [category |-> "api",
     keywords |-> << <<"a","p","i">>,
                     <<"e","n","d","p","o","i","n","t">>,
                     <<"r","o","u","t","e">>,
                     <<"c","o","n","t","r","o","l","l","e","r">>,
                     <<"s","e","r","v","i","c","e">> >>],
    [category |-> "ui",
     keywords |-> << <<"u","i">>,
                     <<"f","r","o","n","t","e","n","d">>,
                     <<"v","i","s","u","a","l">>,
                     <<"c","o","l","o","r">>,
                     <<"s","t","y","l","e">>,
                     <<"c","s","s">>,
                     <<"p","a","n","e","l">> >>],
    [category |-> "infra",
     keywords |-> << <<"i","n","f","r","a">>,
                     <<"d","e","p","l","o","y">>,
                     <<"d","o","c","k","e","r">>,
                     <<"c","i">>,
                     <<"c","d">>,
                     <<"c","o","r","s">>,
                     <<"c","o","n","f","i","g">>,
                     <<"e","n","v">> >>],
    [category |-> "fix",
     keywords |-> << <<"f","i","x">>,
                     <<"b","u","g">>,
                     <<"p","a","t","c","h">>,
                     <<"h","o","t","f","i","x">>,
                     <<"i","s","s","u","e">> >>],
    [category |-> "refactor",
     keywords |-> << <<"r","e","f","a","c","t","o","r">>,
                     <<"c","l","e","a","n","u","p">>,
                     <<"r","e","o","r","g","a","n","i","z","e">>,
                     <<"r","e","s","t","r","u","c","t","u","r","e">> >>],
    [category |-> "test",
     keywords |-> << <<"t","e","s","t">>,
                     <<"s","p","e","c">>,
                     <<"j","e","s","t">>,
                     <<"p","y","t","e","s","t">>,
                     <<"c","o","v","e","r","a","g","e">> >>],
    [category |-> "docs",
     keywords |-> << <<"d","o","c">>,
                     <<"r","e","a","d","m","e">>,
                     <<"c","o","m","m","e","n","t">>,
                     <<"l","i","c","e","n","s","e">> >>],
    [category |-> "feature",
     keywords |-> << <<"a","d","d">>,
                     <<"i","m","p","l","e","m","e","n","t">>,
                     <<"c","r","e","a","t","e">>,
                     <<"n","e","w">>,
                     <<"f","e","a","t","u","r","e">> >>] >>

\* the fixed label set of the categorizer
Categories == {CATEGORY_KEYWORDS[i].category : i \in 1..Len(CATEGORY_KEYWORDS)} \cup {"other"}

\* any(kw in text for kw in keywords)
AnyKeyword(keywords, text) == \E k \in 1..Len(keywords) : Contains(text, keywords[k])

\* the loop "for category, keywords in CATEGORY_KEYWORDS.items(): if any(...): return category"
\* from table entry i on; NoMatch when the loop falls through
NoMatch == "<no match>"
RECURSIVE FirstCategory(_, _, _)
FirstCategory(items, text, i) ==
    IF i > Len(items) THEN NoMatch
    ELSE IF AnyKeyword(items[i].keywords, text) THEN items[i].category
    ELSE FirstCategory(items, text, i + 1)

\* a plausible slip: the file paths are consulted before the message
CategorizeCommitFilesFirst(message, files) ==
    LET msg_lower == Lower(message)
        file_str  == Lower(Join(<<" ">>, files))
        byFiles   == FirstCategory(CATEGORY_KEYWORDS, file_str, 1)
        byMessage == FirstCategory(CATEGORY_KEYWORDS, msg_lower, 1)
    IN  IF byFiles # NoMatch THEN byFiles
        ELSE IF byMessage # NoMatch THEN byMessage
        ELSE "other"

\* CommitAnalyzer._categorize_commit
CategorizeCommit(message, files) ==
    LET msg_lower == Lower(message)
        byMessage == FirstCategory(CATEGORY_KEYWORDS, msg_lower, 1)
    IN  IF byMessage # NoMatch THEN byMessage
        ELSE LET file_str == Lower(Join(<<" ">>, files))
                 byFiles  == FirstCategory(CATEGORY_KEYWORDS, file_str, 1)
             IN  IF byFiles # NoMatch THEN byFiles ELSE "other"

(***************************************************************************)
(* Optional values: None is the empty tuple, a present value v is <<v>>.   *)
(***************************************************************************)
None == <<>>
Some(v) == <<v>>
IsNone(o) == o = None
ValueOf(o) == o[1]

(***************************************************************************)
(* Text operations of the history extractor.                               *)
(***************************************************************************)
Whitespace == {" ", "\n"}

RECURSIVE LStrip(_)
LStrip(s) == IF s # <<>> /\ Head(s) \in Whitespace THEN LStrip(Tail(s)) ELSE s

RECURSIVE RStrip(_)
RStrip(s) ==
    IF s # <<>> /\ s[Len(s)] \in Whitespace THEN RStrip(SubSeq(s, 1, Len(s) - 1)) ELSE s

\* str.strip()
Strip(s) == LStrip(RStrip(s))

\* s.split(sep)[0]: the text before the first occurrence of sep (all of s without one)
SplitHead(s, sep) ==
    IF Contains(s, sep) THEN SubSeq(s, 1, Min(Occurrences(sep, s)) - 1) ELSE s

\* commit.message.strip().split("\n")[0]
FirstLine(message) == SplitHead(Strip(message), <<"\n">>)

\* s[:n]
Prefix(s, n) == SubSeq(s, 1, IF Len(s) < n THEN Len(s) ELSE n)

(***************************************************************************)
(* Times.  committed_date is in seconds since the epoch; a datetime is the *)
(* local wall-clock second count; hour values (floats in the code) are     *)
(* kept in tenths of an hour, and the model's dates are multiples of 360 s *)
(* so that the division is exact.                                          *)
(***************************************************************************)
\* datetime.fromtimestamp(seconds): naive local time, here one hour east of UTC
FromTimestamp(seconds) == seconds + 60 * 60

\* a plausible slip: the subtraction the other way round
DeltaHoursReversed(prev_timestamp, timestamp) == ((timestamp - prev_timestamp) * 10) \div 3600

\* (prev_timestamp - timestamp).total_seconds() / 3600, in tenths of an hour
DeltaHours(prev_timestamp, timestamp) == ((prev_timestamp - timestamp) * 10) \div 3600

(***************************************************************************)
(* CommitData and the history extractor.                                   *)
(***************************************************************************)
\* the dataclass default of CommitData.category
DefaultCategory == "unknown"

\* a plausible slip: the statistics are read without the try/except
ExtractCommitStatsUnguarded(commit) ==
    [files_changed |-> Len(commit.diff),
     insertions    |-> commit.insertions,
     deletions     |-> commit.deletions,
     file_list     |-> <<>>]

\* CommitAnalyzer._extract_commit_stats: (files_changed, insertions, deletions, file_list);
\* any exception while reading the commit gives the zero-valued tuple
ExtractCommitStats(commit) ==
    IF ~commit.readable
    THEN [files_changed |-> 0, insertions |-> 0, deletions |-> 0, file_list |-> <<>>]
    ELSE LET touched == SelectSeq(commit.diff, LAMBDA d : d.a_path # None \/ d.b_path # None)
             files == [i \in 1..Len(touched) |->
                          IF touched[i].a_path # None THEN ValueOf(touched[i].a_path)
                          ELSE ValueOf(touched[i].b_path)]
         IN  [files_changed |-> Len(files),
              insertions    |-> commit.insertions,
              deletions     |-> commit.deletions,
              file_list     |-> files]

\* the length of hexsha kept as CommitData.sha
ShaLen == 7

\* the body of the loop of analyze_commits for one commit
MakeCommitData(commit, prev_timestamp) ==
    LET stats == ExtractCommitStats(commit)
        timestamp == FromTimestamp(commit.committed_date)
        time_since_last ==
            IF IsNone(prev_timestamp) THEN None
            ELSE Some(DeltaHours(ValueOf(prev_timestamp), timestamp))
    IN  [sha           |-> Prefix(commit.hexsha, ShaLen),
         message       |-> FirstLine(commit.message),
         author        |-> commit.author,
         timestamp     |-> timestamp,
         files_changed |-> stats.files_changed,
         insertions    |-> stats.insertions,
         deletions     |-> stats.deletions,
         file_list     |-> stats.file_list,
         total_churn   |-> stats.insertions + stats.deletions,
         time_since_last_commit_hours |-> time_since_last,
         category      |-> CategorizeCommit(commit.message, stats.file_list),
         complexity_score |-> 0]

\* the loop of analyze_commits over the walk (newest first) from position i on,
\* appending to commits_data
RECURSIVE AnalyzeLoop(_, _, _, _)
AnalyzeLoop(walk, i, prev_timestamp, commits_data) ==
    IF i > Len(walk) THEN commits_data
    ELSE LET data == MakeCommitData(walk[i], prev_timestamp)
         IN  AnalyzeLoop(walk, i + 1, Some(data.timestamp), Append(commits_data, data))

\* list(reversed(xs))
Reversed(xs) == [i \in 1..Len(xs) |-> xs[Len(xs) + 1 - i]]

\* repo.iter_commits("HEAD", max_count=max_commits): the newest max_commits commits
\* of the history, newest first
IterCommits(history, max_commits) == Prefix(history, max_commits)

\* CommitAnalyzer.analyze_commits
AnalyzeCommits(history, max_commits) ==
    Reversed(AnalyzeLoop(IterCommits(history, max_commits), 1, None, <<>>))

(***************************************************************************)
(* The similarity index (TaskEstimator.index_commits, find_similar_commits)*)
(* The collection is the sequence of stored entries, in insertion order.   *)
(***************************************************************************)
\* how many file paths the document text lists
MaxDocFiles == 10

\* the f-string document of index_commits, as its parts
Document(commit) ==
    [commit   |-> commit.message,
     category |-> commit.category,
     files_changed |-> commit.files_changed,
     added    |-> commit.insertions,
     deleted  |-> commit.deletions,
     files    |-> Join(<<",", " ">>, Prefix(commit.file_list, MaxDocFiles))]

\* datetime.isoformat(): a text, no longer a number
IsoFormat(timestamp) == <<"iso", timestamp>>

\* Python's "x or 0" on an Optional[float]
OrZero(o) == IF IsNone(o) \/ ValueOf(o) = 0 THEN 0 ELSE ValueOf(o)

\* the metadata mapping of index_commits
Metadata(commit, repo_name) ==
    [sha           |-> commit.sha,
     message       |-> commit.message,
     repo          |-> repo_name,
     category      |-> commit.category,
     files_changed |-> commit.files_changed,
     insertions    |-> commit.insertions,
     deletions     |-> commit.deletions,
     total_churn   |-> commit.total_churn,
     time_since_last |-> OrZero(commit.time_since_last_commit_hours),
     timestamp     |-> IsoFormat(commit.timestamp)]

\* a plausible slip: the id leaves out the repository name
DocIdShaOnly(repo_name, sha) == sha

\* f"{repo_name}_{commit.sha}"
DocId(repo_name, sha) == repo_name \o <<"_">> \o sha

\* the (documents, metadatas, ids) lists index_commits builds, as one list of entries
Batch(commits, repo_name) ==
    [i \in 1..Len(commits) |->
        [id       |-> DocId(repo_name, commits[i].sha),
         document |-> Document(commits[i]),
         metadata |-> Metadata(commits[i], repo_name)]]

Ids(entries) == {entries[i].id : i \in 1..Len(entries)}

\* a plausible slip: add instead of upsert, an entry is appended whatever its id
UpsertOneAppend(coll, entry) == Append(coll, entry)

\* upsert of one entry: overwrite the stored entry of that id, or append
UpsertOne(coll, entry) ==
    IF entry.id \in Ids(coll)
    THEN [i \in 1..Len(coll) |-> IF coll[i].id = entry.id THEN entry ELSE coll[i]]
    ELSE Append(coll, entry)

RECURSIVE UpsertFrom(_, _, _)
UpsertFrom(coll, batch, i) ==
    IF i > Len(batch) THEN coll ELSE UpsertFrom(UpsertOne(coll, batch[i]), batch, i + 1)

\* what the vector store does with a batch that repeats an id: refuse the whole
\* batch (DuplicateIDError) or let the last entry win, depending on its version
DupPolicies == {"reject", "last_wins"}

HasDuplicateIds(batch) == Cardinality(Ids(batch)) < Len(batch)

\* collection.upsert(documents, metadatas, ids): the collection afterwards and
\* whether the call raised
Upsert(coll, batch, policy) ==
    IF policy = "reject" /\ HasDuplicateIds(batch)
    THEN [collection |-> coll, raised |-> TRUE]
    ELSE [collection |-> UpsertFrom(coll, batch, 1), raised |-> FALSE]

\* TaskEstimator.index_commits: the collection afterwards, whether it raised, and
\* the count it returns
IndexCommits(coll, commits, repo_name, policy) ==
    LET batch == Batch(commits, repo_name)
    IN  IF batch # <<>>
        THEN LET up == Upsert(coll, batch, policy)
             IN  [collection |-> up.collection, raised |-> up.raised, count |-> Len(batch)]
        ELSE [collection |-> coll, raised |-> FALSE, count |-> 0]

(***************************************************************************)
(* collection.query and find_similar_commits.  The embedding is opaque:    *)
(* a query may return any min(n_results, count) distinct stored entries,   *)
(* nearest first, at distinct distances.  Distances and similarities are   *)
(* in tenths (cosine distance ranges over 0.0 .. 2.0).                     *)
(***************************************************************************)
Distances == {2, 15}

\* the hits of a query whose distances are among the given ones: <<entry, distance>>
\* pairs, of distinct entries, nearest first
QueryHitsAmong(coll, n_results, distances) ==
    LET k == Min({n_results, Len(coll)})
        orders == {o \in [1..k -> 1..Len(coll)] : \A i, j \in 1..k : i # j => o[i] # o[j]}
        chains == {d \in [1..k -> distances] : \A i \in 1..k : i < k => d[i] < d[i + 1]}
    IN  {[i \in 1..k |-> <<o[i], d[i]>>] : o \in orders, d \in chains}

QueryHits(coll, n_results) == QueryHitsAmong(coll, n_results, Distances)

\* a plausible slip: the query text is stored in the collection it is looked up in
CollectionAfterQueryStored(coll, query_text) ==
    Append(coll, [id |-> query_text, document |-> query_text, metadata |-> <<>>])

\* the collection after collection.query(query_texts=[query_text], ...): a query
\* reads the collection and stores nothing
CollectionAfterQuery(coll, query_text) == coll

\* the result mapping of collection.query for one query text
QueryResult(coll, hits) ==
    [metadatas |-> << [i \in 1..Len(hits) |-> coll[hits[i][1]].metadata] >>,
     distances |-> << [i \in 1..Len(hits) |-> hits[i][2]] >>]

\* a plausible slip: a similarity below zero is raised to zero
FindSimilarCommitsClamped(results) ==
    IF results.metadatas # <<>> /\ results.metadatas[1] # <<>>
    THEN [i \in 1..Len(results.metadatas[1]) |->
            LET meta == results.metadatas[1][i]
                distance == IF results.distances # <<>> THEN results.distances[1][i] ELSE 0
            IN  [sha           |-> meta.sha,
                 message       |-> meta.message,
                 repo          |-> meta.repo,
                 category      |-> meta.category,
                 files_changed |-> meta.files_changed,
                 total_churn   |-> meta.total_churn,
                 time_hours    |-> meta.time_since_last,
                 similarity    |-> IF distance > 10 THEN 0 ELSE 10 - distance]]
    ELSE <<>>

\* TaskEstimator.find_similar_commits, from the result of the query
FindSimilarCommits(results) ==
    IF results.metadatas # <<>> /\ results.metadatas[1] # <<>>
    THEN [i \in 1..Len(results.metadatas[1]) |->
            LET meta == results.metadatas[1][i]
                distance == IF results.distances # <<>> THEN results.distances[1][i] ELSE 0
            IN  [sha           |-> meta.sha,
                 message       |-> meta.message,
                 repo          |-> meta.repo,
                 category      |-> meta.category,
                 files_changed |-> meta.files_changed,
                 total_churn   |-> meta.total_churn,
                 time_hours    |-> meta.time_since_last,
                 similarity    |-> 10 - distance]]
    ELSE <<>>

(***************************************************************************)
(* The collaborator's text and JSON.  A text is a sequence of tokens:      *)
(* "F" is a run of three backticks, "json" the word json, "\n" a newline,  *)
(* "w" a word of prose, and the rest are the tokens of JSON.  A JSON value *)
(* is [kind, value]; an object's value is a function on its keys.          *)
(***************************************************************************)
NumericKeys == {"estimated_hours_low", "estimated_hours_high", "confidence",
                "complexity_score", "risk_score"}
TextKeys == {"complexity_reasoning"}
ListKeys == {"risk_factors", "recommendations"}

\* the eight keys estimate_task reads, in the order it reads them
ExpectedKeys == <<"estimated_hours_low", "estimated_hours_high", "confidence",
                  "complexity_score", "complexity_reasoning", "risk_score",
                  "risk_factors", "recommendations">>

SerText(txt) == <<"\"">> \o txt \o <<"\"">>

SerList(items) == <<"[">> \o Join(<<",">>, [i \in 1..Len(items) |-> SerText(items[i])]) \o <<"]">>

SerMember(obj, key) ==
    <<"\"", key, "\"", ":">> \o
    (IF key \in NumericKeys THEN <<ToString(obj[key])>>
     ELSE IF key \in TextKeys THEN SerText(obj[key])
     ELSE SerList(obj[key]))

\* json.dumps: the text of a JSON value
Serialize(v) ==
    CASE v.kind = "object" ->
            LET keys == SelectSeq(ExpectedKeys, LAMBDA k : k \in DOMAIN v.value)
            IN  <<"{">> \o Join(<<",">>, [i \in 1..Len(keys) |-> SerMember(v.value, keys[i])])
                       \o <<"}">>
      [] v.kind = "array"  -> SerList(v.value)
      [] v.kind = "number" -> <<ToString(v.value)>>
      [] v.kind = "string" -> SerText(v.value)
      [] v.kind = "null"   -> <<"null">>


\* hour values and confidences are in tenths, like every float of the model
Obj(low, high, confidence, complexity, reasoning, risk, factors, recommendations) ==
    [kind  |-> "object",
     value |-> [estimated_hours_low  |-> low,
                estimated_hours_high |-> high,
                confidence           |-> confidence,
                complexity_score     |-> complexity,
                complexity_reasoning |-> reasoning,
                risk_score           |-> risk,
                risk_factors         |-> factors,
                recommendations      |-> recommendations]]

\* every key but one
Without(obj, key) ==
    [kind |-> "object", value |-> [k \in (DOMAIN obj.value) \ {key} |-> obj.value[k]]]

\* a well-formed answer
JPlain == Obj(10, 30, 8, 4, <<"w">>, 20, << <<"w">>, <<"w", "w">> >>, << <<"w">> >>)
\* an answer whose numbers are out of range: low > high, confidence 1.5, risk 150
JOutOfRange == Obj(90, 10, 15, 4, <<"w">>, 150, << <<"w">> >>, << <<"w">> >>)
\* an answer whose reasoning quotes a snippet between plain fences
JFenceInText == Obj(10, 30, 8, 4, <<"w", "F", "5", "F", "w">>, 20, << <<"w">> >>, << <<"w">> >>)
\* an answer with a recommendation that quotes a json-fenced snippet
JJsonFenceInText ==
    Obj(10, 30, 8, 4, <<"w">>, 20, << <<"w">> >>, << <<"w", "F", "json", "5", "F">> >>)

\* the answers that are JSON objects with the eight expected keys
CompleteObjects == {JPlain, JOutOfRange, JFenceInText, JJsonFenceInText}

\* the JSON values of the model: the complete objects, objects lacking keys,
\* and values that are no object
JsonValues ==
    CompleteObjects
    \cup {Without(JPlain, "recommendations"), Without(JPlain, "estimated_hours_low"),
          [kind |-> "object", value |-> <<>>]}
    \cup {[kind |-> "array", value |-> << <<"w">> >>],
          [kind |-> "number", value |-> 5],
          [kind |-> "string", value |-> <<"w">>],
          [kind |-> "null", value |-> <<>>]}

\* the texts of the JSON values of the model
JsonTexts == {<<Serialize(v), v>> : v \in JsonValues}

\* json.loads: the value whose text this is (surrounding whitespace ignored), or a
\* JSONDecodeError
JsonLoads(text) ==
    LET t == Strip(text)
        found == {p \in JsonTexts : p[1] = t}
    IN  IF found # {}
        THEN [ok |-> TRUE, value |-> (CHOOSE p \in found : TRUE)[2]]
        ELSE [ok |-> FALSE, value |-> [kind |-> "null", value |-> <<>>]]

\* s.split(sep)[1], for s containing sep: the text between the first and the
\* second occurrence of sep
SplitSecond(s, sep) ==
    LET first == Min(Occurrences(sep, s))
    IN  SplitHead(SubSeq(s, first + Len(sep), Len(s)), sep)

FenceJson == <<"F", "json">>
Fence == <<"F">>

\* the fallback estimate of _estimate_with_llm
Fallback ==
    [kind  |-> "object",
     value |-> [estimated_hours_low  |-> 20,
                estimated_hours_high |-> 80,
                confidence           |-> 3,
                complexity_score     |-> 5,
                complexity_reasoning |-> <<"Unable to parse LLM response">>,
                risk_score           |-> 50,
                risk_factors         |-> << <<"Estimation uncertainty">> >>,
                recommendations      |-> << <<"Break down task into smaller pieces">> >>]]

\* the fence stripping of _estimate_with_llm
ExtractJson(content) ==
    IF Contains(content, FenceJson)
    THEN SplitHead(SplitSecond(content, FenceJson), Fence)
    ELSE IF Contains(content, Fence)
    THEN SplitHead(SplitSecond(content, Fence), Fence)
    ELSE content

\* a plausible slip: a parse failure is answered with an empty object
ParseResponseNoFallback(content) ==
    LET parsed == JsonLoads(ExtractJson(content))
    IN  IF parsed.ok THEN parsed.value ELSE [kind |-> "object", value |-> <<>>]

\* the try/except of _estimate_with_llm: the parsed value, or the fallback on a
\* JSONDecodeError (the IndexError it also catches cannot arise: split()[1] is
\* taken only when the separator occurs, and split()[0] always exists)
ParseResponse(content) ==
    LET parsed == JsonLoads(ExtractJson(content))
    IN  IF parsed.ok THEN parsed.value ELSE Fallback

\* the similar-commit lines of the prompt
SimilarContext(similar_commits) ==
    [i \in 1..Len(similar_commits) |->
        [message       |-> similar_commits[i].message,
         files_changed |-> similar_commits[i].files_changed,
         total_churn   |-> similar_commits[i].total_churn,
         time_hours    |-> similar_commits[i].time_hours]]

DefaultContext ==
    "Full-stack TypeScript application (NestJS backend, Cocos Creator frontend, Solidity smart contracts)"

\* a plausible slip: the prompt never says that nothing similar was found
PromptWithoutNotice(task_description, similar_commits, codebase_context) ==
    [task       |-> task_description,
     similar    |-> SimilarContext(similar_commits),
     no_similar |-> FALSE,
     context    |-> IF codebase_context # "" THEN codebase_context ELSE DefaultContext]

\* the prompt of _estimate_with_llm, as its variable parts
Prompt(task_description, similar_commits, codebase_context) ==
    [task       |-> task_description,
     similar    |-> SimilarContext(similar_commits),
     no_similar |-> SimilarContext(similar_commits) = <<>>,
     context    |-> IF codebase_context # "" THEN codebase_context ELSE DefaultContext]

\* a plausible slip: without a key a default backend is used
GetLlmClientDefault(environ) ==
    IF environ.openrouter THEN Some("OpenRouterClient") ELSE Some("AnthropicClient")

\* get_llm_client: the client for the configured keys, or None for the ValueError
GetLlmClient(environ) ==
    IF environ.openrouter THEN Some("OpenRouterClient")
    ELSE IF environ.anthropic THEN Some("AnthropicClient")
    ELSE None

\* the text of the ValueError of get_llm_client, word by word
MissingKeyMessage == <<"Set", "OPENROUTER_API_KEY", "or", "ANTHROPIC_API_KEY">>

\* the message of an exception that reaches the caller (only that of the
\* ValueError is spelled out)
ErrorText(error) == IF error = "ValueError" THEN MissingKeyMessage ELSE <<>>

\* what a call leaves behind: whether it returned or raised, the error, the
\* TaskEstimate, and the calls it made on its collaborators
Returned(estimate, prompt) ==
    [status |-> "returned", error |-> "", message |-> <<>>, estimate |-> Some(estimate),
     queries |-> 1, completions |-> 1, prompt |-> Some(prompt)]

\* a plausible slip: the collaborator is asked once more before giving up
RaisedAfterRetry(error, completions, prompt) ==
    [status |-> "raised", error |-> error, message |-> ErrorText(error), estimate |-> None,
     queries |-> 1, completions |-> completions + 1, prompt |-> prompt]

Raised(error, completions, prompt) ==
    [status |-> "raised", error |-> error, message |-> ErrorText(error), estimate |-> None,
     queries |-> 1, completions |-> completions, prompt |-> prompt]

\* the TaskEstimate(...) construction of estimate_task: llm_result[key] raises a
\* TypeError on a value that is no dict and a KeyError on a dict lacking the key
BuildEstimate(task_description, llm_result, similar_commits, prompt) ==
    IF llm_result.kind # "object" THEN Raised("TypeError", 1, Some(prompt))
    ELSE IF \E i \in 1..Len(ExpectedKeys) : ExpectedKeys[i] \notin DOMAIN llm_result.value
    THEN Raised("KeyError", 1, Some(prompt))
    ELSE Returned([task_description     |-> task_description,
                   estimated_hours_low  |-> llm_result.value.estimated_hours_low,
                   estimated_hours_high |-> llm_result.value.estimated_hours_high,
                   confidence           |-> llm_result.value.confidence,
                   complexity_score     |-> llm_result.value.complexity_score,
                   complexity_reasoning |-> llm_result.value.complexity_reasoning,
                   risk_score           |-> llm_result.value.risk_score,
                   risk_factors         |-> llm_result.value.risk_factors,
                   similar_commits      |-> similar_commits,
                   recommendations      |-> llm_result.value.recommendations],
                  prompt)

\* TaskEstimator.estimate_task, given what the index query and the collaborator
\* answer: client is self.llm after _get_llm (None when get_llm_client raised)
EstimateTask(task_description, codebase_context, results, client, content) ==
    LET similar_commits == FindSimilarCommits(results)
        prompt == Prompt(task_description, similar_commits, codebase_context)
    IN  IF IsNone(client) THEN Raised("ValueError", 0, None)
        ELSE BuildEstimate(task_description, ParseResponse(content), similar_commits, prompt)


(***************************************************************************)
(* The persisted commit dump: CommitData.to_dict / from_dict.              *)
(***************************************************************************)
FromIsoFormat(text) == text[2]

\* CommitData.to_dict
ToDict(c) == [c EXCEPT !.timestamp = IsoFormat(c.timestamp)]

\* the fields of CommitData that have a default
FieldDefaults ==
    [file_list |-> <<>>, total_churn |-> 0, time_since_last_commit_hours |-> None,
     category |-> DefaultCategory, complexity_score |-> 0]

\* CommitData.from_dict: cls(**d), a missing optional key takes its default
FromDict(d) ==
    LET all == (DOMAIN d) \cup (DOMAIN FieldDefaults)
        filled == [k \in all |-> IF k \in DOMAIN d THEN d[k] ELSE FieldDefaults[k]]
    IN  [filled EXCEPT !.timestamp = FromIsoFormat(d.timestamp)]

\* the JSON values of a dump
JNull == [t |-> "null"]
JNumber(n) == [t |-> "number", v |-> n]
JString(s) == [t |-> "string", v |-> s]
JArray(xs) == [t |-> "array", v |-> xs]

\* the keys of a dump entry by the Python type of their value
StrFields == {"sha", "message", "author", "timestamp", "category"}
OptionalFields == {"time_since_last_commit_hours"}
ListFields == {"file_list"}

\* a plausible slip: a missing value is written as 0, as the index does
JsonDumpValueOrZero(key, v) ==
    IF key \in StrFields THEN JString(v)
    ELSE IF key \in ListFields THEN JArray([i \in 1..Len(v) |-> JString(v[i])])
    ELSE IF key \in OptionalFields THEN JNumber(OrZero(v))
    ELSE JNumber(v)

\* json.dump of one value of a to_dict() result: str to string, int and float to
\* number, None to null, a list of str to an array of strings
JsonDumpValue(key, v) ==
    IF key \in StrFields THEN JString(v)
    ELSE IF key \in ListFields THEN JArray([i \in 1..Len(v) |-> JString(v[i])])
    ELSE IF key \in OptionalFields
    THEN (IF IsNone(v) THEN JNull ELSE JNumber(ValueOf(v)))
    ELSE JNumber(v)

\* json.load of one value: null to None, the others to the value they hold
JsonLoadValue(key, j) ==
    IF key \in OptionalFields
    THEN (IF j.t = "null" THEN None ELSE Some(j.v))
    ELSE IF j.t = "array" THEN [i \in 1..Len(j.v) |-> j.v[i].v]
    ELSE j.v

\* CommitAnalyzer.save_to_json: the JSON document written
SaveToJson(commits) ==
    [i \in 1..Len(commits) |->
        LET d == ToDict(commits[i])
        IN  [k \in DOMAIN d |-> JsonDumpValue(k, d[k])]]

\* CommitAnalyzer.load_from_json of a document
LoadFromJson(data) ==
    [i \in 1..Len(data) |->
        FromDict([k \in DOMAIN data[i] |-> JsonLoadValue(k, data[i][k])])]

\* a dump entry without some of its keys
DropKeys(d, keys) == [k \in (DOMAIN d) \ keys |-> d[k]]

(***************************************************************************)
(* The accuracy validator (analyze_historical_accuracy, get_accuracy_       *)
(* summary).  Hours are in tenths; error_hours and the midpoint are in     *)
(* twentieths of an hour, so that halving the sum of the two bounds is     *)
(* exact.                                                                  *)
(***************************************************************************)
\* the default min_hours and max_hours, in tenths of an hour
MinHours == 2
MaxHours == 60

\* the churn a commit must exceed
MinChurn == 3

\* how much of the commit message an AccuracyResult keeps
MessageLen == 60

\* a plausible slip: the churn bound is taken inclusive
IsValidCommitInclusive(c, min_hours, max_hours) ==
    /\ ~IsNone(c.time_since_last_commit_hours)
    /\ min_hours <= ValueOf(c.time_since_last_commit_hours)
    /\ ValueOf(c.time_since_last_commit_hours) <= max_hours
    /\ c.total_churn >= MinChurn

\* the condition of the valid_commits comprehension
IsValidCommit(c, min_hours, max_hours) ==
    /\ ~IsNone(c.time_since_last_commit_hours)
    /\ min_hours <= ValueOf(c.time_since_last_commit_hours)
    /\ ValueOf(c.time_since_last_commit_hours) <= max_hours
    /\ c.total_churn > MinChurn

\* valid_commits = [c for c in commits if ...]
ValidCommits(commits, min_hours, max_hours) ==
    SelectSeq(commits, LAMBDA c : IsValidCommit(c, min_hours, max_hours))

\* xs[::step], for step >= 1
Stride(xs, step) ==
    [i \in 1..((Len(xs) + step - 1) \div step) |-> xs[(i - 1) * step + 1]]

\* a plausible slip: the strided list is not cut to sample_size
SampleCommitsUncut(valid_commits, sample_size) ==
    IF Len(valid_commits) > sample_size
    THEN Stride(valid_commits, Len(valid_commits) \div sample_size)
    ELSE valid_commits

\* the sampling of analyze_historical_accuracy, for sample_size >= 1
SampleCommits(valid_commits, sample_size) ==
    IF Len(valid_commits) > sample_size
    THEN Prefix(Stride(valid_commits, Len(valid_commits) \div sample_size), sample_size)
    ELSE valid_commits

\* a plausible slip: the upper bound of the range is taken exclusive
WithinRangeExclusive(actual, est_low, est_high) == est_low <= actual /\ actual < est_high

\* est_low <= actual <= est_high
WithinRange(actual, est_low, est_high) == est_low <= actual /\ actual <= est_high

\* error = actual - (est_low + est_high) / 2, in twentieths of an hour
ErrorHours(actual, est_low, est_high) == 2 * actual - (est_low + est_high)

\* the AccuracyResult the loop body appends for a commit and its estimate
MakeAccuracyResult(commit, estimate) ==
    LET actual == ValueOf(commit.time_since_last_commit_hours)
        est_low == estimate.estimated_hours_low
        est_high == estimate.estimated_hours_high
    IN  [commit_message |-> Prefix(commit.message, MessageLen),
         category       |-> commit.category,
         actual_hours   |-> actual,
         actual_files   |-> commit.files_changed,
         actual_churn   |-> commit.total_churn,
         estimated_low  |-> est_low,
         estimated_high |-> est_high,
         confidence     |-> estimate.confidence,
         within_range   |-> WithinRange(actual, est_low, est_high),
         error_hours    |-> ErrorHours(actual, est_low, est_high)]

\* a plausible slip: only the parse errors of the estimate are caught, any other
\* failure ends the replay with the results so far
ReplayCommitNarrowExcept(results, commit, call) ==
    IF call.status = "returned"
    THEN [results |-> Append(results, MakeAccuracyResult(commit, ValueOf(call.estimate))),
          raised |-> FALSE]
    ELSE [results |-> results, raised |-> TRUE]

\* a plausible slip: the missing credential is let through to the caller, the
\* other failures of an estimate are skipped
ReplayCommitCredentialRaises(results, commit, call) ==
    IF call.status = "returned"
    THEN [results |-> Append(results, MakeAccuracyResult(commit, ValueOf(call.estimate))),
          raised |-> FALSE]
    ELSE [results |-> results, raised |-> call.error = "ValueError"]

\* one turn of the replay loop: the results after it, given what estimate_task
\* did for the commit; "except Exception: continue" skips a failed estimate
ReplayCommit(results, commit, call) ==
    IF call.status = "returned"
    THEN [results |-> Append(results, MakeAccuracyResult(commit, ValueOf(call.estimate))),
          raised |-> FALSE]
    ELSE [results |-> results, raised |-> FALSE]

\* a plausible slip: the quotient is truncated instead of rounded
RoundDown(num, den) == num \div den

\* round(num / den, 0) for den > 0: to the nearest integer, a tie to the even one
RoundHalfEven(num, den) ==
    LET q == num \div den
        r == num - q * den
    IN  IF 2 * r < den THEN q
        ELSE IF 2 * r > den THEN q + 1
        ELSE IF q % 2 = 0 THEN q ELSE q + 1

RECURSIVE SumFrom(_, _)
SumFrom(xs, i) == IF i > Len(xs) THEN 0 ELSE xs[i] + SumFrom(xs, i + 1)

\* sum(xs)
Sum(xs) == SumFrom(xs, 1)

\* sum(1 for x in xs if flag(x)), over the sequence of the flags
CountTrue(flags) == Cardinality({i \in 1..Len(flags) : flags[i]})

\* a plausible slip: the summary is computed without the guard for no results
GetAccuracySummaryUnguarded(results) ==
    IF results = <<>>
    THEN [status |-> "raised", error |-> "ZeroDivisionError", divisions |-> 1,
          value |-> <<>>]
    ELSE LET total == Len(results)
             errors == [i \in 1..total |-> results[i].error_hours]
             within_range_count == CountTrue([i \in 1..Len(results) |-> results[i].within_range])
         IN  [status |-> "returned", error |-> "", divisions |-> 2,
              value |-> [total_samples   |-> total,
                         within_range    |-> within_range_count,
                         accuracy_pct    |-> RoundHalfEven(within_range_count * 1000, total),
                         avg_error_hours |-> RoundHalfEven(Sum(errors), 2 * total),
                         underestimates  |-> CountTrue([i \in 1..Len(errors) |-> errors[i] > 0]),
                         overestimates   |-> CountTrue([i \in 1..Len(errors) |-> errors[i] < 0])]]

\* get_accuracy_summary: what it returns and how many divisions it made;
\* accuracy_pct is in tenths of a percent, avg_error_hours in tenths of an hour
GetAccuracySummary(results) ==
    IF results = <<>>
    THEN [status |-> "returned", error |-> "", divisions |-> 0,
          value |-> [error |-> "No results"]]
    ELSE LET total == Len(results)
             errors == [i \in 1..total |-> results[i].error_hours]
             within_range_count == CountTrue([i \in 1..Len(results) |-> results[i].within_range])
         IN  [status |-> "returned", error |-> "", divisions |-> 2,
              value |-> [total_samples   |-> total,
                         within_range    |-> within_range_count,
                         accuracy_pct    |-> RoundHalfEven(within_range_count * 1000, total),
                         avg_error_hours |-> RoundHalfEven(Sum(errors), 2 * total),
                         underestimates  |-> CountTrue([i \in 1..Len(errors) |-> errors[i] > 0]),
                         overestimates   |-> CountTrue([i \in 1..Len(errors) |-> errors[i] < 0])]]

(***************************************************************************)
(* The diff reviewer (CodeReviewer._get_git_diff, review_diff).  A diff is *)
(* a text, character by character; the answer of the collaborator is a    *)
(* text of tokens, as for the estimator.                                   *)
(***************************************************************************)
\* how much of a diff is kept
DiffLimit == 10000

\* the word review_diff looks for
ErrorWord == <<"E","r","r","o","r">>

\* f"Error getting diff: {e}"
ErrorGettingDiff ==
    <<"E","r","r","o","r"," ","g","e","t","t","i","n","g"," ","d","i","f","f",":"," ","e">>

\* _get_git_diff: staged, unstaged and last are the outputs of "git diff
\* --cached", "git diff" and "git diff HEAD~1"; raises_at is the subprocess.run
\* that raises (1, 2 or 3), should it be reached, or 0
GetGitDiff(staged, unstaged, last, raises_at) ==
    IF raises_at = 1 THEN ErrorGettingDiff
    ELSE IF Strip(staged) # <<>> THEN Prefix(staged, DiffLimit)
    ELSE IF raises_at = 2 THEN ErrorGettingDiff
    ELSE IF Strip(unstaged) # <<>> THEN Prefix(unstaged, DiffLimit)
    ELSE IF raises_at = 3 THEN ErrorGettingDiff
    ELSE Prefix(last, DiffLimit)

\* the ReviewResult of review_diff when it sees nothing to review
NoChangesResult ==
    [risk_score |-> 0, quality_score |-> 100, issues |-> <<>>,
     summary |-> <<"No changes to review">>, merge_recommendation |-> "approve",
     static_metrics |-> <<>>]

\* the review that stands in for an answer that is no JSON
ReviewFallback ==
    [kind  |-> "object",
     value |-> [risk_score |-> 50, quality_score |-> 50, issues |-> <<>>,
                summary |-> <<"Unable to parse review">>,
                merge_recommendation |-> "needs_discussion"]]

\* the try/except of review_diff around the fence stripping and json.loads
ParseReview(content) ==
    LET parsed == JsonLoads(ExtractJson(content))
    IN  IF parsed.ok THEN parsed.value ELSE ReviewFallback

\* d.get(key, default)
Get(d, key, default) == IF key \in DOMAIN d THEN d[key] ELSE default

\* len(diff.split("\n"))
DiffLines(diff) == Cardinality({i \in 1..Len(diff) : diff[i] = "\n"}) + 1

\* whether review_diff takes the diff for nothing to review
NothingToReview(diff) == Strip(diff) = <<>> \/ Contains(diff, ErrorWord)

\* CodeReviewer.review_diff, given what git and the collaborator answer: client
\* is self.llm after _get_llm (None when get_llm_client raised)
ReviewDiffResult(diff, client, content) ==
    IF NothingToReview(diff)
    THEN [status |-> "returned", error |-> "", completions |-> 0, prompt |-> None,
          result |-> Some(NoChangesResult)]
    ELSE IF IsNone(client)
    THEN [status |-> "raised", error |-> "ValueError", completions |-> 0, prompt |-> None,
          result |-> None]
    ELSE LET llm_result == ParseReview(content)
         IN  IF llm_result.kind # "object"
             THEN [status |-> "raised", error |-> "AttributeError", completions |-> 1,
                   prompt |-> Some(diff), result |-> None]
             ELSE [status |-> "returned", error |-> "", completions |-> 1,
                   prompt |-> Some(diff),
                   result |-> Some(
                      [risk_score    |-> Get(llm_result.value, "risk_score", 50),
                       quality_score |-> Get(llm_result.value, "quality_score", 50),
                       issues        |-> Get(llm_result.value, "issues", <<>>),
                       summary       |-> Get(llm_result.value, "summary", <<>>),
                       merge_recommendation |->
                           Get(llm_result.value, "merge_recommendation", "needs_discussion"),
                       static_metrics |-> << <<"diff_lines", DiffLines(diff)>> >>])]

(***************************************************************************)
(* The inputs of the model.                                                *)
(***************************************************************************)
\* words of commit messages; "build" holds the keyword "ui", "special" holds
\* "spec" and "ci"
Words == {<<"F","i","x">>, <<"a","u","t","h">>, <<"a","d","d">>, <<"b","u","i","l","d">>, <<"i","n","i","t">>, <<"s","p","e","c","i","a","l">>}

FixBugInAuth == <<"f","i","x"," ","b","u","g"," ","i","n"," ","a","u","t","h">>
AddLeaderboard == <<"a","d","d"," ","l","e","a","d","e","r","b","o","a","r","d"," ","f","e","a","t","u","r","e">>

\* the commit messages the categorizer is fed
Messages ==
    {Join(<<" ">>, ws) : ws \in SeqsUpTo(Words, MaxWords)} \cup {FixBugInAuth, AddLeaderboard}

\* file paths; "a.py" holds no keyword
Paths == {<<"a",".","p","y">>, <<"s","r","c","/","u","i",".","t","s">>, <<"R","E","A","D","M","E">>}
FileLists == SeqsUpTo(Paths, MaxFiles)

\* a commit object of the version-control reader
Commit(hexsha, message, committed_date, readable, diff, insertions, deletions) ==
    [hexsha |-> hexsha, message |-> message, author |-> "ann",
     committed_date |-> committed_date, readable |-> readable, diff |-> diff,
     insertions |-> insertions, deletions |-> deletions]

DiffEntry(a_path, b_path) == [a_path |-> a_path, b_path |-> b_path]

\* the commit the categorizer inputs stand for
InputCommit(message, files) ==
    Commit(<<"0","b","a","d","c","0","d","e">>, message, 0, TRUE,
           [i \in 1..Len(files) |-> DiffEntry(Some(files[i]), Some(files[i]))], 3, 1)

\* the commits of the history extractor's repositories, without their dates:
\* two whose hashes share the first seven digits, one that cannot be read
\* (its statistics raise), one that adds a file (no a_path)
CommitKinds ==
    {Commit(<<"1","a","2","b","3","c","4","d">>, FixBugInAuth, 0, TRUE,
            <<DiffEntry(Some(<<"a","u","t","h",".","t","s">>), Some(<<"a","u","t","h",".","t","s">>))>>, 5, 2),
     Commit(<<"1","a","2","b","3","c","4","e">>, <<"A","d","d"," ","l","e","a","d","e","r","b","o","a","r","d"," ","f","e","a","t","u","r","e","\n","\n","f","i","x"," ","c","s","s">>, 0, TRUE,
            <<DiffEntry(None, Some(<<"b","o","a","r","d",".","t","s">>)), DiffEntry(Some(<<"m","a","i","n",".","c","s","s">>), Some(<<"m","a","i","n",".","c","s","s">>))>>,
            40, 0),
     Commit(<<"9","f","8","e","7","d","6","c">>, <<"i","n","i","t">>, 0, FALSE, <<>>, 3, 1),
     Commit(<<"0","b","a","d","c","0","d","e">>, <<"U","p","d","a","t","e"," ","R","E","A","D","M","E">>, 0, TRUE,
            <<DiffEntry(Some(<<"R","E","A","D","M","E",".","m","d">>), Some(<<"R","E","A","D","M","E",".","m","d">>))>>, 1, 1)}

\* commit dates, in seconds: 0 h, 1 h and 3.5 h
Dates == {0, 3600, 12600}

\* longest history of a repository
MaxHistory == 3

\* the histories, newest commit first: distinct commits, each with any date (the
\* committer date is whatever the committer's clock said)
Histories ==
    {h \in UNION {[1..n -> CommitKinds \X Dates] : n \in 1..MaxHistory} :
        \A i, j \in 1..Len(h) : i # j => h[i][1] # h[j][1]}

Dated(h) == [i \in 1..Len(h) |-> [h[i][1] EXCEPT !.committed_date = h[i][2]]]


\* the histories that get indexed, newest first, commits one hour apart: a
\* repository at two moments of its life, and one holding the two commits whose
\* short hashes coincide
IndexHistories ==
    LET k(sha) == CHOOSE c \in CommitKinds : c.hexsha = sha
        fix == k(<<"1","a","2","b","3","c","4","d">>)
        add == k(<<"1","a","2","b","3","c","4","e">>)
        init == k(<<"9","f","8","e","7","d","6","c">>)
        docs == k(<<"0","b","a","d","c","0","d","e">>)
    IN  {Dated(<< <<fix, 3600>>, <<init, 0>> >>),
         Dated(<< <<docs, 3600>>, <<fix, 0>> >>),
         Dated(<< <<add, 3600>>, <<fix, 0>> >>)}

\* the default max_commits of analyze_commits
DefaultMaxCommits == 500

\* the max_commits the extractor is called with: fewer than the history holds,
\* or the default
MaxCommitsChoices == {1, 2, DefaultMaxCommits}

\* analyze_commits() of each of them, as the CLI and the indexing script call it
\* before index_commits
AnalyzedHistories == {AnalyzeCommits(h, DefaultMaxCommits) : h \in IndexHistories}

\* names of the indexed repositories (the last path component)
RepoNames == {<<"b","a","c","k">>, <<"m","y","_","a","p","p">>}

\* how many times in a row the model counts an index call being repeated
MaxRepeats == 2

\* how many index_commits calls a behaviour of the model makes
MaxIndexCalls == 3

\* what the index may hold when the estimator opens it (it persists on disk):
\* nothing, or one repository
StoredCollections ==
    {<<>>} \cup
    {IndexCommits(<<>>, c, <<"b","a","c","k">>, "reject").collection :
        c \in {a \in AnalyzedHistories : a[1].category = "auth" /\ a[2].category = "docs"}}

\* the estimate requests: (task_description, codebase_context)
Requests == {<<<<"a","d","d"," ","l","o","g","i","n"," ","p","a","g","e">>, "">>, <<FixBugInAuth, "NestJS backend">>}

\* how many estimate_task calls a behaviour of the model makes
MaxEstimates == 1

\* n_results of the query of estimate_task
NResults == 5

\* the environments: which of OPENROUTER_API_KEY, ANTHROPIC_API_KEY are set
Environments == [openrouter : BOOLEAN, anthropic : BOOLEAN]

\* what the collaborator may answer: a JSON value, prose, nothing, or JSON cut
\* short; bare, in a json fence or in a plain fence; with or without prose around
Payloads ==
    {Serialize(v) : v \in JsonValues}
    \cup {<<"w", "w">>, <<>>, SubSeq(Serialize(JPlain), 1, Len(Serialize(JPlain)) - 1)}

Wrappers == {"bare", "json_fence", "plain_fence"}

Wrap(payload, wrapper, prose) ==
    LET block == CASE wrapper = "bare" -> payload
                   [] wrapper = "json_fence" -> <<"F", "json", "\n">> \o payload \o <<"\n", "F">>
                   [] wrapper = "plain_fence" -> <<"F", "\n">> \o payload \o <<"\n", "F">>
    IN  IF prose THEN <<"w", "\n">> \o block \o <<"\n", "w">> ELSE block

\* the letters that tell the commits of a replayed history apart
Letters == <<"a","b","c","d","e","f","g","h","i","j","k","l","m",
             "n","o","p","q","r","s","t","u","v","w","x","y","z">>

\* a gap to the next commit and a churn, with a message of one line or of more
\* than MessageLen characters
Gap(hours, churn, long) == [hours |-> hours, churn |-> churn, long |-> long]

\* the patterns the commits of a replayed history follow, oldest first: all
\* within the session bounds; or gaps and churns on and around the bounds of
\* the filter (0.1 h, 0.2 h, 6.0 h, 6.1 h, a negative gap, churn 3 and 4)
GapPatterns ==
    { << Gap(10, 4, FALSE) >>,
      << Gap(2, 10, FALSE), Gap(1, 10, FALSE), Gap(30, 4, FALSE), Gap(60, 3, FALSE),
         Gap(60, 10, TRUE), Gap(61, 10, FALSE), Gap(0 - 10, 10, FALSE), Gap(20, 10, FALSE) >> }

\* the gap and churn of the i-th commit of a history that follows a pattern
GapAt(pattern, i) == pattern[((i - 1) % Len(pattern)) + 1]

\* its timestamp: each commit is its gap before the next one
RECURSIVE ReplayedTimestamp(_, _)
ReplayedTimestamp(pattern, i) ==
    IF i = 1 THEN FromTimestamp(0)
    ELSE ReplayedTimestamp(pattern, i - 1) + 360 * GapAt(pattern, i - 1).hours

\* the i-th record of analyze_commits for a history of n commits following a
\* pattern; the newest (last) record has no gap
ReplayedCommit(pattern, n, i) ==
    LET g == GapAt(pattern, i)
        subject == <<"t","a","s","k"," ", Letters[i]>>
    IN  [sha           |-> <<"0","0","0","0","0","0", Letters[i]>>,
         message       |-> IF g.long THEN subject \o [k \in 1..MessageLen |-> "x"] ELSE subject,
         author        |-> "ann",
         timestamp     |-> ReplayedTimestamp(pattern, i),
         files_changed |-> 1,
         insertions    |-> g.churn,
         deletions     |-> 0,
         file_list     |-> << <<"a",".","p","y">> >>,
         total_churn   |-> g.churn,
         time_since_last_commit_hours |-> IF i = n THEN None ELSE Some(g.hours),
         category      |-> "other",
         complexity_score |-> 0]

ReplayedCommits(pattern, n) == [i \in 1..n |-> ReplayedCommit(pattern, n, i)]

\* longest history the validator replays, but for the one of 20 valid commits
MaxReplayed == 8

\* what analyze_commits gives the validator
ReplayedHistories ==
    {ReplayedCommits(pattern, n) : pattern \in GapPatterns, n \in 1..MaxReplayed}

\* 20 commits within the bounds and the newest one after them
TwentyValid == ReplayedCommits(<< Gap(10, 4, FALSE) >>, 20 + 1)

\* largest sample_size, but for the 5 out of 20
MaxSample == 3

\* the validation runs, as (commits of the repository, sample_size >= 1)
ValidationRuns ==
    (ReplayedHistories \X (1..MaxSample)) \cup {<<TwentyValid, 5>>}

\* what the collaborator answers during a replay: an estimate of 1 to 3 hours,
\* prose (2 to 8 hours by the fallback), an estimate with low above high, an
\* object lacking a key
ReplayAnswers ==
    {Serialize(JPlain), <<"w", "w">>, Serialize(JOutOfRange),
     Serialize(Without(JPlain, "recommendations"))}

\* the environments of a validation run: no key, or the OpenRouter key
ReplayEnvironments == {e \in Environments : ~e.anthropic}

\* the commit lists that get saved: the analyses of the repositories, the
\* replayed histories, and no commits at all
DumpedLists ==
    {AnalyzeCommits(Dated(h), DefaultMaxCommits) : h \in Histories}
        \cup ReplayedHistories \cup {<<>>}

\* the distances of the searches over a larger index: 0.0, 0.2, 1.0, 1.5, 2.0
SearchDistances == {0, 2, 10, 15, 20}

\* the commits of the larger index, one more than a query may return: gaps of
\* one hour and of no time at all, and the newest commit without a gap
SearchedCommits == ReplayedCommits(<< Gap(10, 4, FALSE), Gap(0, 4, FALSE) >>, NResults + 1)

\* what the index may hold when it is searched: nothing, fewer entries than a
\* query asks for, or more
SearchedIndex == IndexCommits(<<>>, SearchedCommits, <<"b","a","c","k">>, "reject").collection
SearchCollections == StoredCollections \cup {SearchedIndex}

\* what the collaborator answers to the estimates over the larger index
SearchAnswers == {Serialize(JPlain), <<"w", "w">>}

\* what a git diff command prints: nothing, blank lines, a hunk line, and a
\* hunk line that adds a use of IOError
DiffOutputs ==
    {<<>>, <<" ", "\n">>, <<"+", "x", "\n">>, <<"+", "I", "O", "E", "r", "r", "o", "r", "\n">>}

\* what the collaborator answers to a review prompt: an object with a risk
\* score, bare or in a json fence, an empty object, prose, a number
ReviewAnswers ==
    {Serialize(JPlain), Wrap(Serialize(JPlain), "json_fence", FALSE),
     Serialize([kind |-> "object", value |-> <<>>]), <<"w", "w">>,
     Serialize([kind |-> "number", value |-> 5])}

\* without a client the collaborator is never asked
Unasked == [payload |-> <<>>, wrapper |-> "unasked", prose |-> FALSE]

\* what the collaborator may answer to the prompt
Answers(client) ==
    IF IsNone(client) THEN {Unasked}
    ELSE [payload : Payloads, wrapper : Wrappers, prose : BOOLEAN]

(***************************************************************************)
(* The state.                                                              *)
(***************************************************************************)
VARIABLES
    catMessage,   \* the commit message given to the categorizer
    catFiles,     \* the file list given to the categorizer
    catRecord,    \* the CommitData made from them (None before)
    catLoaded,    \* the CommitData read back from its dump (None before)
    history,      \* the repository under analysis: its commits, newest first
    analysis,     \* the last analyze_commits call: its argument and its result
    dumpFile,     \* the JSON document save_to_json wrote for that result (None before)
    loaded,       \* the commits load_from_json read from the document (None before)
    resaved,      \* the JSON document save_to_json wrote for the loaded commits
    collection,   \* the vector store's "commits" collection
    dupPolicy,    \* what the vector store does with a repeated id in a batch
    lastIndex,    \* the last index_commits call, when it was the last operation
    indexed,      \* the (repo_name, sha) pairs of the batches stored so far
    indexCalls,   \* how many index_commits calls were made
    environ,      \* the process environment
    llm,          \* TaskEstimator.llm, the lazily made client
    outcome,      \* the last estimate_task call: its arguments and what came of it
    estimates,    \* how many estimate_task calls were made
    validation,   \* the run of analyze_historical_accuracy: arguments, position, results
    summary,      \* what get_accuracy_summary made of the results (None before)
    review        \* the last review_diff call: what git gave and what came of it

catVars == <<catMessage, catFiles, catRecord, catLoaded>>
anVars == <<history, analysis, dumpFile, loaded, resaved>>
indexVars == <<collection, dupPolicy, lastIndex, indexed, indexCalls>>
estVars == <<environ, llm, outcome, estimates>>
valVars == <<validation, summary>>
revVars == <<review>>
vars == <<catVars, anVars, indexVars, estVars, valVars, revVars>>

CatIdle == catMessage = <<>> /\ catFiles = <<>> /\ catRecord = None /\ catLoaded = None
AnIdle == history = <<>> /\ analysis = None /\ dumpFile = None /\ loaded = None
          /\ resaved = None
IndexIdle == collection = <<>> /\ dupPolicy = "reject" /\ lastIndex = None /\ indexed = {}
             /\ indexCalls = 0
EstIdle == environ = [openrouter |-> FALSE, anthropic |-> FALSE] /\ llm = None /\ outcome = None
           /\ estimates = 0
ValIdle == validation = None /\ summary = None
RevIdle == review = None

(***************************************************************************)
(* The categorizer and the commit dump.                                    *)
(***************************************************************************)
InitCat ==
    /\ catMessage \in Messages
    /\ catFiles \in FileLists
    /\ catRecord = None
    /\ catLoaded = None
    /\ AnIdle /\ IndexIdle /\ EstIdle /\ ValIdle /\ RevIdle

\* analyze_commits makes the CommitData of the commit
MakeRecord ==
    /\ catRecord = None
    /\ catRecord' = Some(MakeCommitData(InputCommit(catMessage, catFiles), None))
    /\ UNCHANGED <<catMessage, catFiles, catLoaded, anVars, indexVars, estVars, valVars, revVars>>

\* save_to_json then load_from_json; the dump may come from a writer that left
\* the category out
LoadRecord ==
    /\ catRecord # None
    /\ catLoaded = None
    /\ \E dropped \in SUBSET {"category"} :
          catLoaded' = Some(FromDict(DropKeys(ToDict(ValueOf(catRecord)), dropped)))
    /\ UNCHANGED <<catMessage, catFiles, catRecord, anVars, indexVars, estVars, valVars, revVars>>

NextCat == MakeRecord \/ LoadRecord

SpecCat == InitCat /\ [][NextCat]_vars

(***************************************************************************)
(* The history extractor.                                                  *)
(***************************************************************************)
InitAnalyze ==
    /\ history \in {Dated(h) : h \in Histories}
    /\ analysis = None
    /\ dumpFile = None /\ loaded = None /\ resaved = None
    /\ CatIdle /\ IndexIdle /\ EstIdle /\ ValIdle /\ RevIdle

\* analyze_commits(max_commits)
Analyze ==
    /\ \E max_commits \in MaxCommitsChoices :
          analysis' = Some([max_commits |-> max_commits,
                            commits |-> AnalyzeCommits(history, max_commits)])
    /\ UNCHANGED <<history, dumpFile, loaded, resaved, catVars, indexVars, estVars, valVars, revVars>>

NextAnalyze == Analyze

SpecAnalyze == InitAnalyze /\ [][NextAnalyze]_vars

(***************************************************************************)
(* The commit dump: save_to_json, load_from_json, and saving once more     *)
(* what was loaded.                                                        *)
(***************************************************************************)
InitDump == CatIdle /\ AnIdle /\ IndexIdle /\ EstIdle /\ ValIdle /\ RevIdle

\* save_to_json(commits, output_path)
SaveCommits ==
    /\ dumpFile = None
    /\ \E commits \in DumpedLists :
          dumpFile' = Some([commits |-> commits, data |-> SaveToJson(commits)])
    /\ UNCHANGED <<history, analysis, loaded, resaved, catVars, indexVars, estVars, valVars, revVars>>

\* load_from_json(input_path)
LoadCommits ==
    /\ dumpFile # None
    /\ loaded = None
    /\ loaded' = Some(LoadFromJson(ValueOf(dumpFile).data))
    /\ UNCHANGED <<history, analysis, dumpFile, resaved, catVars, indexVars, estVars, valVars, revVars>>

\* save_to_json of the loaded commits
ResaveCommits ==
    /\ loaded # None
    /\ resaved = None
    /\ resaved' = Some(SaveToJson(ValueOf(loaded)))
    /\ UNCHANGED <<history, analysis, dumpFile, loaded, catVars, indexVars, estVars, valVars, revVars>>

NextDump == SaveCommits \/ LoadCommits \/ ResaveCommits

SpecDump == InitDump /\ [][NextDump]_vars

(***************************************************************************)
(* The similarity index.                                                   *)
(***************************************************************************)
\* index_commits(commits, repo_name)
IndexRepo(repo_name, commits) ==
    LET r == IndexCommits(collection, commits, repo_name, dupPolicy)
        again == /\ lastIndex # None
                 /\ ValueOf(lastIndex).repo_name = repo_name
                 /\ ValueOf(lastIndex).commits = commits
        times == IF again THEN ValueOf(lastIndex).times + 1 ELSE 1
    IN  /\ collection' = r.collection
        /\ lastIndex' = Some([repo_name |-> repo_name, commits |-> commits,
                              raised |-> r.raised, count |-> r.count,
                              times |-> IF times > MaxRepeats THEN MaxRepeats ELSE times])
        /\ indexed' = IF r.raised THEN indexed
                      ELSE indexed \cup {<<repo_name, commits[i].sha>> : i \in 1..Len(commits)}
        /\ UNCHANGED dupPolicy

InitIndex ==
    /\ collection = <<>>
    /\ dupPolicy \in DupPolicies
    /\ lastIndex = None
    /\ indexed = {}
    /\ indexCalls = 0
    /\ CatIdle /\ AnIdle /\ EstIdle /\ ValIdle /\ RevIdle

Index ==
    /\ indexCalls < MaxIndexCalls
    /\ indexCalls' = indexCalls + 1
    /\ \E repo_name \in RepoNames, commits \in AnalyzedHistories :
          IndexRepo(repo_name, commits)
    /\ UNCHANGED <<catVars, anVars, estVars, valVars, revVars>>

NextIndex == Index

SpecIndex == InitIndex /\ [][NextIndex]_vars

(***************************************************************************)
(* The estimation engine, over the index it finds on disk.                 *)
(***************************************************************************)
Init ==
    /\ collection \in StoredCollections
    /\ environ \in Environments
    /\ llm = None
    /\ outcome = None
    /\ estimates = 0
    /\ dupPolicy = "reject" /\ lastIndex = None /\ indexed = {} /\ indexCalls = 0
    /\ CatIdle /\ AnIdle /\ ValIdle /\ RevIdle

\* estimate_task(task_description, codebase_context): the index answers the
\* query with hits, the collaborator answers the prompt with content
Estimate ==
    /\ estimates < MaxEstimates
    /\ estimates' = estimates + 1
    /\ \E request \in Requests, hits \in QueryHits(collection, NResults) :
          LET task_description == request[1]
              codebase_context == request[2]
              results == QueryResult(collection, hits)
              client  == IF IsNone(llm) THEN GetLlmClient(environ) ELSE llm
          IN  /\ collection' = CollectionAfterQuery(collection, task_description)
              /\ llm' = client
              /\ \E answer \in Answers(client) :
                    LET content == IF answer = Unasked THEN <<>>
                                   ELSE Wrap(answer.payload, answer.wrapper, answer.prose)
                    IN  outcome' = Some([task_description |-> task_description,
                                         codebase_context |-> codebase_context,
                                         results |-> results,
                                         content |-> content,
                                         payload |-> answer.payload,
                                         wrapper |-> answer.wrapper,
                                         prose   |-> answer.prose,
                                         result  |-> EstimateTask(task_description,
                                                                  codebase_context,
                                                                  results, client, content)])
    /\ UNCHANGED <<dupPolicy, lastIndex, indexed, indexCalls, environ, catVars, anVars, valVars, revVars>>

Next == Estimate

Spec == Init /\ [][Next]_vars

(***************************************************************************)
(* The estimation engine over an index that holds more commits than a      *)
(* query returns.                                                          *)
(***************************************************************************)
InitSearch ==
    /\ collection \in SearchCollections
    /\ environ = [openrouter |-> TRUE, anthropic |-> FALSE]
    /\ llm = None
    /\ outcome = None
    /\ estimates = 0
    /\ dupPolicy = "reject" /\ lastIndex = None /\ indexed = {} /\ indexCalls = 0
    /\ CatIdle /\ AnIdle /\ ValIdle /\ RevIdle

\* estimate_task(task_description, codebase_context), the first call of the
\* process
EstimateSearch ==
    /\ estimates = 0
    /\ estimates' = estimates + 1
    /\ \E request \in Requests,
          hits \in QueryHitsAmong(collection, NResults, SearchDistances),
          content \in SearchAnswers :
          LET results == QueryResult(collection, hits)
              client  == IF IsNone(llm) THEN GetLlmClient(environ) ELSE llm
          IN  /\ collection' = CollectionAfterQuery(collection, request[1])
              /\ llm' = client
              /\ outcome' = Some([task_description |-> request[1],
                                  codebase_context |-> request[2],
                                  hits    |-> hits,
                                  results |-> results,
                                  content |-> content,
                                  result  |-> EstimateTask(request[1], request[2],
                                                           results, client, content)])
    /\ UNCHANGED <<dupPolicy, lastIndex, indexed, indexCalls, environ, catVars, anVars, valVars, revVars>>

NextSearch == EstimateSearch

SpecSearch == InitSearch /\ [][NextSearch]_vars

(***************************************************************************)
(* The accuracy validator: one run of analyze_historical_accuracy over the *)
(* index found on disk, then get_accuracy_summary of what it returned.     *)
(***************************************************************************)
InitValidate ==
    /\ collection \in StoredCollections
    /\ environ \in ReplayEnvironments
    /\ llm = None
    /\ outcome = None
    /\ estimates = 0
    /\ validation = None
    /\ summary = None
    /\ dupPolicy = "reject" /\ lastIndex = None /\ indexed = {} /\ indexCalls = 0
    /\ CatIdle /\ AnIdle /\ RevIdle

\* analyze_historical_accuracy(repo_path, sample_size) up to its loop: the
\* commits are analysed, filtered and sampled, and a TaskEstimator is made
StartValidation ==
    /\ validation = None
    /\ \E run \in ValidationRuns :
          LET commits == run[1]
              sample_size == run[2]
              valid_commits == ValidCommits(commits, MinHours, MaxHours)
          IN  validation' = Some([pc            |-> "loop",
                                  commits       |-> commits,
                                  sample_size   |-> sample_size,
                                  candidates    |-> valid_commits,
                                  valid_commits |-> SampleCommits(valid_commits, sample_size),
                                  next          |-> 1,
                                  calls         |-> <<>>,
                                  results       |-> <<>>])
    /\ llm' = None
    /\ UNCHANGED <<catVars, anVars, indexVars, environ, outcome, estimates, summary, revVars>>

\* one turn of "for commit in valid_commits": estimate_task(commit.message),
\* then the AccuracyResult, or nothing when anything raised
ReplayNextCommit ==
    /\ validation # None
    /\ ValueOf(validation).pc = "loop"
    /\ ValueOf(validation).next <= Len(ValueOf(validation).valid_commits)
    /\ LET run == ValueOf(validation)
           commit == run.valid_commits[run.next]
           client == IF IsNone(llm) THEN GetLlmClient(environ) ELSE llm
       IN  /\ collection' = CollectionAfterQuery(collection, commit.message)
           /\ llm' = client
           /\ \E hits \in QueryHits(collection, NResults),
                 content \in (IF IsNone(client) THEN {<<>>} ELSE ReplayAnswers) :
                 LET call == EstimateTask(commit.message, "", QueryResult(collection, hits),
                                          client, content)
                     turn == ReplayCommit(run.results, commit, call)
                 IN  validation' =
                        Some([run EXCEPT
                                !.pc = IF turn.raised THEN "raised" ELSE "loop",
                                !.next = run.next + 1,
                                !.calls = Append(run.calls,
                                                 [task_description |-> commit.message,
                                                  status   |-> call.status,
                                                  error    |-> call.error,
                                                  estimate |-> IF call.status = "returned"
                                                               THEN Some([low  |-> ValueOf(call.estimate).estimated_hours_low,
                                                                          high |-> ValueOf(call.estimate).estimated_hours_high,
                                                                          confidence |-> ValueOf(call.estimate).confidence])
                                                               ELSE None]),
                                !.results = turn.results])
    /\ UNCHANGED <<catVars, anVars, dupPolicy, lastIndex, indexed, indexCalls, environ, outcome,
                   estimates, summary, revVars>>

\* "return results" after the last turn
ReturnResults ==
    /\ validation # None
    /\ ValueOf(validation).pc = "loop"
    /\ ValueOf(validation).next > Len(ValueOf(validation).valid_commits)
    /\ validation' = Some([ValueOf(validation) EXCEPT !.pc = "returned"])
    /\ UNCHANGED <<catVars, anVars, indexVars, estVars, summary, revVars>>

\* get_accuracy_summary(results)
Summarize ==
    /\ validation # None
    /\ ValueOf(validation).pc = "returned"
    /\ summary = None
    /\ summary' = Some(GetAccuracySummary(ValueOf(validation).results))
    /\ UNCHANGED <<catVars, anVars, indexVars, estVars, validation, revVars>>

NextValidate == StartValidation \/ ReplayNextCommit \/ ReturnResults \/ Summarize

SpecValidate == InitValidate /\ [][NextValidate]_vars

(***************************************************************************)
(* The diff reviewer: one review_diff call of a CodeReviewer.              *)
(***************************************************************************)
InitReview ==
    /\ environ \in ReplayEnvironments
    /\ llm = None
    /\ outcome = None
    /\ estimates = 0
    /\ review = None
    /\ CatIdle /\ AnIdle /\ IndexIdle /\ ValIdle

\* review_diff(repo_path)
ReviewDiff ==
    /\ review = None
    /\ \E staged \in DiffOutputs, unstaged \in DiffOutputs, last \in DiffOutputs,
          raises_at \in 0..3 :
          LET diff == GetGitDiff(staged, unstaged, last, raises_at)
              asked == ~NothingToReview(diff)
              client == IF ~asked \/ ~IsNone(llm) THEN llm ELSE GetLlmClient(environ)
          IN  /\ llm' = client
              /\ \E content \in (IF asked /\ ~IsNone(client) THEN ReviewAnswers ELSE {<<>>}) :
                    review' = Some([staged |-> staged, unstaged |-> unstaged, last |-> last,
                                    raises_at |-> raises_at, diff |-> diff,
                                    content |-> content,
                                    call |-> ReviewDiffResult(diff, client, content)])
    /\ UNCHANGED <<catVars, anVars, indexVars, environ, outcome, estimates, valVars>>

NextReview == ReviewDiff

SpecReview == InitReview /\ [][NextReview]_vars

(***************************************************************************)
(* Properties of the history extractor (under SpecAnalyze).                *)
(***************************************************************************)
Analyzed == analysis # None
AnalyzedCommits == ValueOf(analysis).commits
\* the commits the last analysis walked, newest first
Walked == IterCommits(history, ValueOf(analysis).max_commits)

\* C1: in the list analyze_commits returns, time_since_last_commit_hours is null
\* for exactly one record, the first (oldest) one, and is non-null and
\* non-negative for every other record.
C1_NullExactlyForOldest ==
    Analyzed =>
        /\ IsNone(AnalyzedCommits[1].time_since_last_commit_hours)
        /\ \A i \in 2..Len(AnalyzedCommits) :
              /\ ~IsNone(AnalyzedCommits[i].time_since_last_commit_hours)
              /\ ValueOf(AnalyzedCommits[i].time_since_last_commit_hours) >= 0

\* C2: every record but the one of the first commit walked holds the gap, in
\* hours, from its own commit date to the date of the commit walked just before
\* it (its later neighbour); the record of walk position j is at position
\* n + 1 - j of the returned list.
C2_GapToLaterCommit ==
    Analyzed =>
        LET n == Len(Walked)
        IN  /\ Len(AnalyzedCommits) = n
            /\ \A j \in 2..n :
                  LET record == AnalyzedCommits[n + 1 - j]
                      gap == Walked[j - 1].committed_date - Walked[j].committed_date
                  IN  /\ record.sha = SubSeq(Walked[j].hexsha, 1, 7)
                      /\ record.timestamp - Walked[j].committed_date
                            = AnalyzedCommits[n].timestamp - Walked[1].committed_date
                      /\ record.time_since_last_commit_hours = Some((gap * 10) \div 3600)

\* C2 witness: three commits were walked and the oldest is 1 h before its later
\* neighbour, which is 2.5 h before the newest
C2_Witness ==
    /\ Analyzed
    /\ Len(AnalyzedCommits) = 3
    /\ AnalyzedCommits[1].time_since_last_commit_hours = Some(10)
    /\ AnalyzedCommits[2].time_since_last_commit_hours = Some(25)

\* C14: analyze_commits returns one record per commit walked (the newest
\* min(max_commits, number of commits)); a commit whose statistics cannot be
\* read gets files_changed, insertions, deletions and total_churn of 0 and an
\* empty file list, and keeps its hash, message and date; the record of every
\* other commit is made from that commit and the date of the commit walked
\* before it, whatever the other commits are.
C14_UnreadableCommitGivesZeroRecord ==
    Analyzed =>
        LET n == Min({ValueOf(analysis).max_commits, Len(history)})
        IN  /\ Len(AnalyzedCommits) = n
            /\ \A j \in 1..n :
                  LET record == AnalyzedCommits[n + 1 - j]
                      before == IF j = 1 THEN None
                                ELSE Some(FromTimestamp(history[j - 1].committed_date))
                  IN  IF history[j].readable
                      THEN record = MakeCommitData(history[j], before)
                      ELSE /\ record.files_changed = 0
                           /\ record.insertions = 0
                           /\ record.deletions = 0
                           /\ record.total_churn = 0
                           /\ record.file_list = <<>>
                           /\ record.sha = SubSeq(history[j].hexsha, 1, 7)
                           /\ record.message = FirstLine(history[j].message)
                           /\ record.timestamp = FromTimestamp(history[j].committed_date)

\* C14 witness: of three commits walked the middle one could not be read, and
\* its neighbours kept their statistics
C14_Witness ==
    /\ Analyzed
    /\ Len(AnalyzedCommits) = 3
    /\ ~history[2].readable
    /\ AnalyzedCommits[2].total_churn = 0
    /\ AnalyzedCommits[1].total_churn > 0
    /\ AnalyzedCommits[3].total_churn > 0

\* C15: the timestamps of the list analyze_commits returns never decrease from
\* one record to the next.
C15_TimestampsNeverDecrease ==
    Analyzed =>
        \A i \in 1..(Len(AnalyzedCommits) - 1) :
            AnalyzedCommits[i].timestamp <= AnalyzedCommits[i + 1].timestamp

\* C27: the category of every record analyze_commits returns is the categorizer
\* applied to the record's own message (the first line of the commit message)
\* and its own file_list; later lines of the commit message do not count.
C27_CategoryOfStoredMessage ==
    Analyzed =>
        \A i \in 1..Len(AnalyzedCommits) :
            AnalyzedCommits[i].category =
                CategorizeCommit(AnalyzedCommits[i].message, AnalyzedCommits[i].file_list)

(***************************************************************************)
(* Properties of the commit dump (under SpecDump).                         *)
(***************************************************************************)
Saved == ValueOf(dumpFile).commits

\* C22: load_from_json of what save_to_json wrote gives the commits that were
\* saved, field for field, and saving the loaded commits once more writes the
\* JSON value of the first document.
C22_DumpRoundTrips ==
    /\ loaded # None =>
          /\ Len(ValueOf(loaded)) = Len(Saved)
          /\ \A i \in 1..Len(Saved) :
                /\ DOMAIN ValueOf(loaded)[i] = DOMAIN Saved[i]
                /\ \A k \in DOMAIN Saved[i] : ValueOf(loaded)[i][k] = Saved[i][k]
    /\ resaved # None => ValueOf(resaved) = ValueOf(dumpFile).data

\* C22 witness: a list with a commit of unknown gap and one of a known gap,
\* and file lists, went through the dump and back and was saved again
C22_Witness ==
    /\ resaved # None
    /\ \E i, j \in 1..Len(Saved) :
          /\ Saved[i].time_since_last_commit_hours = None
          /\ Saved[j].time_since_last_commit_hours # None
          /\ Saved[j].file_list # <<>>
          /\ ValueOf(dumpFile).data[i].time_since_last_commit_hours = JNull
          /\ ValueOf(dumpFile).data[j].timestamp.t = "string"

(***************************************************************************)
(* Properties of the categorizer and of CommitData (under SpecCat).        *)
(***************************************************************************)
Categorized == catRecord # None

\* C6 as claimed: the message "fix bug in auth", with any file list, is
\* categorized as "fix".
C6_FixBeforeAuth ==
    (Categorized /\ catMessage = FixBugInAuth) => ValueOf(catRecord).category = "fix"

\* C6 as amended: the message "fix bug in auth", with any file list, is
\* categorized as "auth", the entry of the table that comes before "fix".
C6_AuthBeforeFix ==
    (Categorized /\ catMessage = FixBugInAuth) => ValueOf(catRecord).category = "auth"

\* C6 witness: that message was categorized, with a file list of its own
C6_Witness == Categorized /\ catMessage = FixBugInAuth /\ catFiles # <<>>

\* the table order C7 states, and the keywords of a category whatever its place
ClaimedOrder == <<"auth", "nft", "api", "ui", "infra", "fix", "refactor", "test",
                  "docs", "feature">>
KeywordsOf(category) ==
    LET e == CHOOSE i \in 1..Len(CATEGORY_KEYWORDS) : CATEGORY_KEYWORDS[i].category = category
    IN  {CATEGORY_KEYWORDS[e].keywords[k] : k \in 1..Len(CATEGORY_KEYWORDS[e].keywords)}
\* the places of the claimed order whose category has a keyword within the text
MatchingPlaces(text) ==
    {i \in 1..Len(ClaimedOrder) : \E kw \in KeywordsOf(ClaimedOrder[i]) : Contains(text, kw)}

C8_CategoryOfTheFixedSet ==
    /\ Categorized => ValueOf(catRecord).category \in Categories
    /\ catLoaded # None => ValueOf(catLoaded).category \in Categories

(***************************************************************************)
(* Properties of the estimation engine (under Spec).                       *)
(***************************************************************************)
Estimated == outcome # None
Call == ValueOf(outcome)
\* the collaborator was reached and answered
Answered == Estimated /\ Call.result.completions = 1
Estimate0 == ValueOf(Call.result.estimate)

\* the estimate holds the values of the fallback
IsFallbackEstimate(e) ==
    /\ e.estimated_hours_low = 20
    /\ e.estimated_hours_high = 80
    /\ e.confidence = 3
    /\ e.complexity_score = 5
    /\ e.risk_score = 50
    /\ Len(e.risk_factors) = 1
    /\ Len(e.recommendations) = 1

\* the payloads that are the text of an object lacking one of the eight keys
IncompleteObjectTexts ==
    {Serialize(v) : v \in {w \in JsonValues :
        w.kind = "object" /\ \E i \in 1..Len(ExpectedKeys) : ExpectedKeys[i] \notin DOMAIN w.value}}

\* C3: whatever text the collaborator answers, estimate_task returns a
\* TaskEstimate and raises nothing; an answer lacking keys gives the fallback.
C3_NeverRaisesOnAnyAnswer ==
    Answered =>
        /\ Call.result.status = "returned"
        /\ (Call.payload \in IncompleteObjectTexts /\ Call.wrapper = "bare" /\ ~Call.prose)
              => IsFallbackEstimate(Estimate0)

\* C4: when the answer, after the fence stripping, is no JSON, estimate_task
\* returns the fallback (2 to 8 hours, confidence 0.3, complexity 5, risk 50, one
\* risk factor, one recommendation), with the task of the request and the
\* similar commits of the index query.
C4_FallbackOnUnparseableAnswer ==
    (Answered /\ ~JsonLoads(ExtractJson(Call.content)).ok) =>
        /\ Call.result.status = "returned"
        /\ IsFallbackEstimate(Estimate0)
        /\ Estimate0.task_description = Call.task_description
        /\ Len(Estimate0.similar_commits) = Len(Call.results.metadatas[1])
        /\ \A i \in 1..Len(Estimate0.similar_commits) :
              /\ Estimate0.similar_commits[i].sha = Call.results.metadatas[1][i].sha
              /\ Estimate0.similar_commits[i].message = Call.results.metadatas[1][i].message
              /\ Estimate0.similar_commits[i].similarity = 10 - Call.results.distances[1][i]

\* C4 witness: prose inside a json fence was answered over an index of two
\* commits, and an estimate came back
C4_Witness ==
    /\ Answered
    /\ Call.payload = <<"w", "w">>
    /\ Call.wrapper = "json_fence"
    /\ Call.result.status = "returned"
    /\ Len(Estimate0.similar_commits) = 2

\* C5: an object J with the eight keys gives the estimate of J's values, be it
\* answered bare, in a json fence or in a plain fence (with or without prose
\* around the fence).
C5_FenceIsTransparent ==
    (/\ Answered
     /\ Call.payload \in {Serialize(J) : J \in CompleteObjects}
     /\ Call.wrapper = "bare" => ~Call.prose) =>
        LET J == (CHOOSE v \in CompleteObjects : Serialize(v) = Call.payload).value
        IN  /\ Call.result.status = "returned"
            /\ Estimate0.estimated_hours_low = J.estimated_hours_low
            /\ Estimate0.estimated_hours_high = J.estimated_hours_high
            /\ Estimate0.confidence = J.confidence
            /\ Estimate0.complexity_score = J.complexity_score
            /\ Estimate0.complexity_reasoning = J.complexity_reasoning
            /\ Estimate0.risk_score = J.risk_score
            /\ Estimate0.risk_factors = J.risk_factors
            /\ Estimate0.recommendations = J.recommendations

\* C24: estimate_task leaves the index as it found it, whatever the task, the
\* answer of the collaborator and the outcome of the call: the entries of the
\* collection, with their ids, documents and metadata, are the same after it.
C24_EstimateLeavesIndexAlone ==
    [][outcome' # outcome => collection' = collection]_vars

\* C24 witness: a call over an index of two commits raised after its query
C24_Witness ==
    /\ Estimated
    /\ Len(collection) = 2
    /\ Call.result.queries = 1
    /\ Call.result.error = "KeyError"

\* C25: when the collaborator answers a JSON object with the eight expected
\* keys, the estimate comes back with each of its values unchanged, out of
\* range or not, and not with the fallback.
C25_CompleteObjectPassesThrough ==
    (/\ Answered
     /\ Call.wrapper = "bare"
     /\ ~Call.prose
     /\ \E v \in CompleteObjects : Serialize(v) = Call.payload) =>
        LET J == (CHOOSE v \in CompleteObjects : Serialize(v) = Call.payload).value
        IN  /\ Call.result.status = "returned"
            /\ \A key \in {"estimated_hours_low", "estimated_hours_high", "confidence",
                             "complexity_score", "complexity_reasoning", "risk_score",
                             "risk_factors", "recommendations"} :
                  Estimate0[key] = J[key]

NoCredential == ~environ.openrouter /\ ~environ.anthropic

\* C11: with neither OPENROUTER_API_KEY nor ANTHROPIC_API_KEY set, estimate_task
\* raises to its caller, the error names both variables, the collaborator is
\* never asked and no TaskEstimate (no fallback either) comes back.
C11_NoCredentialRaises ==
    (Estimated /\ NoCredential) =>
        /\ Call.result.status = "raised"
        /\ Call.result.error = "ValueError"
        /\ \E i, j \in 1..Len(Call.result.message) :
              /\ Call.result.message[i] = "OPENROUTER_API_KEY"
              /\ Call.result.message[j] = "ANTHROPIC_API_KEY"
        /\ IsNone(Call.result.estimate)
        /\ Call.result.completions = 0

\* C11 witness: a request was made without any key, over an index that holds
\* commits
C11_Witness ==
    /\ Estimated
    /\ NoCredential
    /\ collection # <<>>
    /\ Call.result.status = "raised"

\* C12: every estimate_task call queries the index once, and asks the
\* collaborator once when there is a client, whatever the answer is (prose,
\* partial JSON, an object lacking keys, a value that is no object).
C12_OneQueryOneCompletion ==
    Estimated =>
        /\ Call.result.queries = 1
        /\ Call.result.completions = (IF NoCredential THEN 0 ELSE 1)

\* C12 witness: the collaborator answered a truncated JSON text, unwrapped,
\* and was asked once
C12_Witness ==
    /\ Answered
    /\ Call.payload # <<>>
    /\ Call.payload = SubSeq(Serialize(JPlain), 1, Len(Call.payload))
    /\ Len(Call.payload) < Len(Serialize(JPlain))
    /\ Call.wrapper = "bare"
    /\ ~Call.prose

\* C13: over an index without documents the query gives no similar commit,
\* the collaborator is still asked, with a prompt saying that no similar past
\* work was found, and a well-formed answer gives a TaskEstimate whose
\* similar_commits is empty.
C13_EmptyIndexIsNoError ==
    (Estimated /\ collection = <<>>) =>
        /\ FindSimilarCommits(Call.results) = <<>>
        /\ ~NoCredential =>
              /\ Call.result.completions = 1
              /\ ValueOf(Call.result.prompt).no_similar
              /\ ValueOf(Call.result.prompt).similar = <<>>
        /\ Call.result.status = "returned" => Estimate0.similar_commits = <<>>
        /\ (Answered /\ Call.payload = Serialize(JPlain)) => Call.result.status = "returned"

\* C13 witness: an estimate came back from an empty index
C13_Witness ==
    /\ Estimated
    /\ collection = <<>>
    /\ Call.result.status = "returned"
    /\ Call.payload = Serialize(JPlain)
    /\ Estimate0.similar_commits = <<>>

(***************************************************************************)
(* Properties of the search for similar commits (under SpecSearch).        *)
(***************************************************************************)
Similar == Estimate0.similar_commits

\* C23: the similar commits of an estimate are the hits of the index query, one
\* entry per hit in the order of the hits, with the metadata of the hit and
\* similarity = 1 - distance whatever its sign; the query asks for 5, so there
\* are min(5, size of the index) of them.
C23_SimilarCommitsAreTheHits ==
    (Estimated /\ Call.result.status = "returned") =>
        /\ Len(Similar) = Len(Call.hits)
        /\ Len(Similar) <= 5
        /\ Len(Similar) = Min({5, Len(collection)})
        /\ \A i \in 1..Len(Similar) :
              LET meta == collection[Call.hits[i][1]].metadata
              IN  /\ Similar[i].sha = meta.sha
                  /\ Similar[i].message = meta.message
                  /\ Similar[i].repo = meta.repo
                  /\ Similar[i].category = meta.category
                  /\ Similar[i].files_changed = meta.files_changed
                  /\ Similar[i].total_churn = meta.total_churn
                  /\ Similar[i].similarity = 10 - Call.hits[i][2]

\* C23 witness: of six indexed commits five came back, the sixth entry of the
\* index first and the first entry last, at a similarity of -1.0
C23_Witness ==
    /\ Estimated
    /\ Call.result.status = "returned"
    /\ Len(collection) = 6
    /\ Len(Similar) = 5
    /\ Call.hits[1][1] = 6
    /\ Call.hits[5][1] = 1
    /\ Similar[1].sha = collection[6].metadata.sha
    /\ Similar[5].similarity = 0 - 10

\* C29: the time_hours of a similar commit is the time_since_last_commit_hours
\* of the commit that was indexed, and a commit without a gap (null) does not
\* come back with the time_hours of a commit whose gap is 0 hours.
C29_ElapsedHoursSurviveIndexing ==
    (Estimated /\ Call.result.status = "returned" /\ collection = SearchedIndex) =>
        /\ \A i \in 1..Len(Similar) :
              SearchedCommits[Call.hits[i][1]].time_since_last_commit_hours
                  = Some(Similar[i].time_hours)
        /\ \A i, j \in 1..Len(Similar) :
              (/\ SearchedCommits[Call.hits[i][1]].time_since_last_commit_hours = None
               /\ SearchedCommits[Call.hits[j][1]].time_since_last_commit_hours = Some(0))
                  => Similar[i].time_hours # Similar[j].time_hours

(***************************************************************************)
(* Properties of the accuracy validator (under SpecValidate).              *)
(***************************************************************************)
Validating == validation # None
Run == ValueOf(validation)
\* the calls of the replay whose estimate came back
ReturnedCalls == SelectSeq(Run.calls, LAMBDA c : c.status = "returned")

\* C16: with n candidates and sample_size k >= 1 the sample is all of them when
\* n <= k, and otherwise the k candidates at indices 0, step, ..., (k-1)*step
\* with step = n div k, in their order; 20 candidates and k = 5 give the
\* indices 0, 4, 8, 12, 16.
C16_StrideSample ==
    Validating =>
        LET n == Len(Run.candidates)
            k == Run.sample_size
            sample == Run.valid_commits
        IN  /\ n <= k => sample = Run.candidates
            /\ n > k =>
                  /\ Len(sample) = k
                  /\ \A i \in 0..(k - 1) : sample[i + 1] = Run.candidates[i * (n \div k) + 1]
            /\ (n = 20 /\ k = 5) =>
                  sample = <<Run.candidates[1], Run.candidates[5], Run.candidates[9],
                             Run.candidates[13], Run.candidates[17]>>

\* C16 witness: seven candidates and a sample of three, where every second
\* candidate would make four
C16_Witness ==
    /\ Validating
    /\ Len(Run.candidates) = 7
    /\ Run.sample_size = 3
    /\ Len(Run.valid_commits) = 3
    /\ Run.valid_commits[3] = Run.candidates[5]

\* the commits of the run that the filter must drop
Dropped ==
    {i \in 1..Len(Run.commits) :
        LET c == Run.commits[i]
        IN  \/ c.time_since_last_commit_hours = None
            \/ ValueOf(c.time_since_last_commit_hours) < 2
            \/ ValueOf(c.time_since_last_commit_hours) > 60
            \/ c.total_churn <= 3}

\* C17: every AccuracyResult has actual hours within [0.2, 6.0] and a churn above
\* 3, and no commit with null hours, hours outside the interval or churn of 3
\* or less is ever given to estimate_task.
C17_OnlySessionCommitsEstimated ==
    Validating =>
        /\ \A j \in 1..Len(Run.results) :
              /\ 2 <= Run.results[j].actual_hours
              /\ Run.results[j].actual_hours <= 60
              /\ Run.results[j].actual_churn > 3
        /\ \A j \in 1..Len(Run.calls) : \A i \in Dropped :
              Run.calls[j].task_description # Run.commits[i].message

\* C17 witness: of a history with gaps on and around the bounds, the commits of
\* 0.2 h and of 6.0 h were estimated
C17_Witness ==
    /\ Validating
    /\ Dropped # {Len(Run.commits)}
    /\ Len(Run.results) = 3
    /\ Run.results[1].actual_hours = 2
    /\ Run.results[3].actual_hours = 60

\* C18: the j-th AccuracyResult is made from the j-th estimate that came back:
\* it has its bounds, within_range is true exactly when low <= actual <= high,
\* and error_hours is actual minus the midpoint of the bounds (twice the
\* actual minus their sum, in twentieths of an hour).
C18_WithinRangeAndError ==
    Validating =>
        /\ Len(Run.results) = Len(ReturnedCalls)
        /\ \A j \in 1..Len(Run.results) :
              LET r == Run.results[j]
                  e == ValueOf(ReturnedCalls[j].estimate)
              IN  /\ r.commit_message = SubSeq(ReturnedCalls[j].task_description, 1,
                                                Min({60, Len(ReturnedCalls[j].task_description)}))
                  /\ r.estimated_low = e.low
                  /\ r.estimated_high = e.high
                  /\ r.within_range = (e.low <= r.actual_hours /\ r.actual_hours <= e.high)
                  /\ r.error_hours = 2 * r.actual_hours - (e.low + e.high)

\* C18 witness: a commit of 3.0 h estimated at 1 to 3 hours is within range,
\* one of 6.0 h with a message of more than 60 characters is not
C18_Witness ==
    /\ Validating
    /\ \E j \in 1..Len(Run.results) :
          /\ Run.results[j].actual_hours = 30
          /\ Run.results[j].estimated_high = 30
          /\ Run.results[j].within_range
          /\ Run.results[j].error_hours = 20
    /\ \E j \in 1..Len(Run.results) :
          /\ Run.results[j].actual_hours = 60
          /\ Len(Run.results[j].commit_message) = 60
          /\ ~Run.results[j].within_range

\* C19: the replay never raises; it gives every sampled commit to estimate_task
\* in sample order whatever became of the commits before it, the results are
\* those of the estimates that came back, in that order, and when none came
\* back the list returned is empty.
C19_FailedEstimatesAreSkipped ==
    Validating =>
        /\ Run.pc # "raised"
        /\ Len(Run.calls) = Run.next - 1
        /\ Run.pc = "returned" => Len(Run.calls) = Len(Run.valid_commits)
        /\ \A j \in 1..Len(Run.calls) :
              Run.calls[j].task_description = Run.valid_commits[j].message
        /\ Len(Run.results) = Len(ReturnedCalls)
        /\ \A j \in 1..Len(Run.results) :
              Run.results[j].estimated_low = ValueOf(ReturnedCalls[j].estimate).low
        /\ ReturnedCalls = <<>> => Run.results = <<>>

\* C19 witness: of three sampled commits the first and the last estimate
\* failed, and the replay returned the result of the second
C19_Witness ==
    /\ Validating
    /\ Run.pc = "returned"
    /\ Len(Run.calls) = 3
    /\ Run.calls[1].error = "KeyError"
    /\ Run.calls[2].status = "returned"
    /\ Run.calls[3].error = "KeyError"
    /\ Len(Run.results) = 1

\* C20: get_accuracy_summary never raises, and for an empty list it returns
\* {"error": "No results"} without dividing.
C20_SummaryOfNoResults ==
    summary # None =>
        /\ ValueOf(summary).status = "returned"
        /\ Run.results = <<>> =>
              /\ ValueOf(summary).value = [error |-> "No results"]
              /\ ValueOf(summary).divisions = 0

\* C20 witness: a replay whose estimates all failed was summarized
C20_Witness ==
    /\ summary # None
    /\ Run.valid_commits # <<>>
    /\ Run.results = <<>>
    /\ ValueOf(summary).status = "returned"

Summarized == summary # None /\ ValueOf(summary).status = "returned"
Report == ValueOf(summary).value

\* C21: for a non-empty result list the summary has total_samples = len(results),
\* within_range = the number of results within range (at most total_samples),
\* and accuracy_pct = 100 * within_range / total_samples to the nearest tenth
\* of a percent, between 0 and 100.
C21_SummaryCounts ==
    (Summarized /\ Run.results # <<>>) =>
        LET within == Cardinality({j \in 1..Len(Run.results) : Run.results[j].within_range})
            total == Len(Run.results)
            diff == Report.accuracy_pct * total - 1000 * within
        IN  /\ Report.total_samples = total
            /\ Report.within_range = within
            /\ Report.within_range <= Report.total_samples
            /\ 2 * diff <= total
            /\ -2 * diff <= total
            /\ 0 <= Report.accuracy_pct
            /\ Report.accuracy_pct <= 1000

\* C21 witness: two of three results are within range, 66.7 percent
C21_Witness ==
    /\ Summarized
    /\ Len(Run.results) = 3
    /\ Report.total_samples = 3
    /\ Report.within_range = 2
    /\ Report.accuracy_pct = 667

\* C26: a result is counted in "underestimates" exactly when its error_hours is
\* negative and in "overestimates" exactly when it is positive, and the two
\* counts together are at most total_samples.
C26_NegativeErrorIsUnderestimate ==
    (Summarized /\ Run.results # <<>>) =>
        /\ Report.underestimates =
              Cardinality({j \in 1..Len(Run.results) : Run.results[j].error_hours < 0})
        /\ Report.overestimates =
              Cardinality({j \in 1..Len(Run.results) : Run.results[j].error_hours > 0})
        /\ Report.underestimates + Report.overestimates <= Report.total_samples

\* C28: without a credential the replay does not raise; every sampled commit is
\* given to estimate_task, each call fails with the ValueError of
\* get_llm_client and is skipped, the list returned is empty and its summary
\* is {"error": "No results"}.
C28_NoCredentialGivesNoResults ==
    (Validating /\ NoCredential) =>
        /\ Run.pc # "raised"
        /\ \A j \in 1..Len(Run.calls) :
              /\ Run.calls[j].status = "raised"
              /\ Run.calls[j].error = "ValueError"
        /\ Run.results = <<>>
        /\ Run.pc = "returned" => Len(Run.calls) = Len(Run.valid_commits)
        /\ summary # None => /\ ValueOf(summary).status = "returned"
                             /\ ValueOf(summary).value = [error |-> "No results"]

\* C28 witness: three commits were sampled, no key was set, and the replay
\* returned and was summarized
C28_Witness ==
    /\ Validating
    /\ NoCredential
    /\ Len(Run.valid_commits) = 3
    /\ Len(Run.calls) = 3
    /\ Run.calls[1].error = "ValueError"
    /\ Run.pc = "returned"
    /\ summary # None

(***************************************************************************)
(* Properties of the similarity index (under SpecIndex).                   *)
(***************************************************************************)
Entries(coll) == {coll[i] : i \in 1..Len(coll)}

\* C9: an index_commits call that repeats the call just before it (same commits,
\* same repo name) leaves the ids, documents and metadata of the index as they
\* were, and the document count too.
C9_ReindexingIsIdempotent ==
    [][(/\ lastIndex # None
        /\ lastIndex' # None
        /\ ValueOf(lastIndex').repo_name = ValueOf(lastIndex).repo_name
        /\ ValueOf(lastIndex').commits = ValueOf(lastIndex).commits
        /\ indexCalls' = indexCalls + 1)
       => (/\ Entries(collection') = Entries(collection)
           /\ Len(collection') = Len(collection))]_vars

\* C9 witness: a batch was stored twice in a row in an index that held other
\* documents before
C9_Witness ==
    /\ lastIndex # None
    /\ ValueOf(lastIndex).times = 2
    /\ ~ValueOf(lastIndex).raised
    /\ Len(collection) > ValueOf(lastIndex).count

Reviewed == review # None
Rev == ValueOf(review)

\* the call came back with the canned result, the collaborator not asked
Canned ==
    /\ Rev.call.status = "returned"
    /\ Rev.call.completions = 0
    /\ ValueOf(Rev.call.result).summary = <<"No changes to review">>
    /\ ValueOf(Rev.call.result).risk_score = 0
    /\ ValueOf(Rev.call.result).quality_score = 100
    /\ ValueOf(Rev.call.result).merge_recommendation = "approve"

\* the git command whose output _get_git_diff would return: the first of the
\* three with an output that is not blank, else the last; 0 when a
\* subprocess.run raised on the way to it
Obtained ==
    LET wanted == IF Strip(Rev.staged) # <<>> THEN 1
                  ELSE IF Strip(Rev.unstaged) # <<>> THEN 2 ELSE 3
    IN  IF Rev.raises_at # 0 /\ Rev.raises_at <= wanted THEN 0 ELSE wanted
ObtainedDiff == <<Rev.staged, Rev.unstaged, Rev.last>>[Obtained]

\* C30: review_diff gives the canned "No changes to review" result only when the
\* staged, unstaged and HEAD~1 diffs are all blank or getting the diff failed;
\* a diff that was obtained and is not blank is sent to the collaborator
\* whenever there is a client to send it to.
C30_CannedOnlyWithoutDiff ==
    Reviewed =>
        /\ Canned => (Obtained = 0 \/ Strip(ObtainedDiff) = <<>>)
        /\ (Obtained # 0 /\ Strip(ObtainedDiff) # <<>> /\ ~NoCredential) =>
              /\ Rev.call.completions = 1
              /\ Rev.call.prompt = Some(ObtainedDiff)

====
